---- MODULE Spec2Model ----
(***************************************************************************)
(* A model of tldreply-bot: the chunked summarizer (GeminiService), the    *)
(* interactive /tldr handlers (Commands), the periodic jobs of TLDRBot     *)
(* (eviction with summarization, summary pruning, scheduled summaries,     *)
(* orphan check), the settings buttons and the tables of Database they     *)
(* work on.                                                                *)
(*                                                                         *)
(* The program is single threaded: a handler runs until its next await,    *)
(* so every action below is the code between two awaits of one async       *)
(* function, and the interleavings are those of the awaits.                *)
(*                                                                         *)
(* Specifications:                                                         *)
(*   SpecSum    summarizeMessages called directly on inputs of the         *)
(*              boundary lengths                                           *)
(*   SpecSumLive  SpecSum with every request answered in the end           *)
(*   SpecTldr   a /tldr handler with the group commands and a filter       *)
(*              button                                                     *)
(*   SpecLimit  two /tldr handlers of one caller in flight at once         *)
(*   SpecPairs  the /tldr requests of two callers, one after the other     *)
(*   SpecEvict  the eviction run with setup, /enable and /disable          *)
(*   Spec       a /tldr handler, the eviction run and the scheduled tick   *)
(*              one after the other                                        *)
(*   SpecHost   the four periodic concerns, two at a time side by side,    *)
(*              each able to fail                                          *)
(*   SpecOrphan the orphan check over two chats with the group commands    *)
(*   SpecSched  the hourly tick and the initial check from the start of a  *)
(*              process on, with timers                                    *)
(*   SpecDaily  the ticks of SpecSched with no call failing, every timer   *)
(*              firing in the end                                          *)
(*   SpecSettings  the buttons of the schedule and filter menus            *)
(*   SpecCache  messages and edits delivered to the cache                  *)
(*   SpecParse  the count and timeframe parser of /tldr over short texts   *)
(*   SpecFilter a /tldr handler over caches of every make-up under every   *)
(*              filter setting                                             *)
(*   SpecTwoFilters  a /tldr handler and the scheduled tick over the same  *)
(*              caches under every filter setting                          *)
(*   SpecArchive  the eviction run under every filter setting              *)
(*   SpecWindow the tick of 09:00 over windows up to one message more      *)
(*              than its read asks for                                     *)
(*   SpecLoops  the eviction run and the tick of 09:00 over two chats      *)
(*   SpecRemoval  the cache handler, step by step, beside the removals of  *)
(*              a group                                                    *)
(***************************************************************************)
EXTENDS Integers, Sequences, FiniteSets, TLC

VARIABLES
    now,            \* the clock (Date.now() / NOW()), in seconds
    groups,         \* table groups: chat -> row or NoRow
    settings,       \* table group_settings: chat -> row or NoRow
    messages,       \* table messages: chat -> rows in timestamp order
    summaries,      \* table summaries: a sequence of rows in insertion order
    rateLimitMap,   \* Commands.rateLimitMap: key -> time of the last accepted /tldr
    accepted,       \* history: key -> time the last /tldr passed the limiter of handleTLDR
    lastRequest,    \* history: key -> time of the last /tldr, accepted or not
    sm,             \* task -> the summarizeMessages invocation it awaits
    direct,         \* a direct caller of summarizeMessages
    tldr,           \* handler -> the locals of one handleTLDR invocation
    evict,          \* the locals of summarizeAndCleanupOldMessages
    sched,          \* callback -> the locals of its checkAndRunScheduledSummaries
    orphan,         \* the locals of checkAndCleanupOrphanedGroups
    host,           \* the process: whether it runs, its timers, the summary pruning
    lastSent,       \* history: chat -> time the last scheduled summary was sent
    caller,         \* history: who made the last settings button tap
    parsed,         \* the input of one /tldr and what the parser made of it
    caching         \* the locals of one processMessageForCache invocation

vars == <<now, groups, settings, messages, summaries, rateLimitMap, accepted, lastRequest,
          sm, direct, tldr, evict, sched, orphan, host, lastSent, caller, parsed, caching>>

\* the tables
dbVars == <<groups, settings, messages, summaries>>

\* the rate limiter and its history
limiterVars == <<rateLimitMap, accepted, lastRequest>>

\* the orphan check, the process and the histories of the jobs and taps
hostVars == <<orphan, host, lastSent, caller, parsed, caching>>

\* all but the summarizer invocations and their direct caller
botVars == <<now, groups, settings, messages, summaries, rateLimitMap, accepted, lastRequest,
             tldr, evict, sched, hostVars>>

-----------------------------------------------------------------------------
(* Bounds of the model *)

\* the longest input of a direct summarizeMessages call spans MaxChunks chunks
MaxChunks == 3

\* the clock advances at most MaxTicks times by seconds
MaxTicks == 3

\* the clock advances at most MaxJumps times by an hour, or by the window of the
\* rate limiter
MaxJumps == 1

(* Program constants *)

CHUNK_SIZE == 900
CHUNK_THRESHOLD == 1000
maxRetries == 3
baseDelay == 1000

-----------------------------------------------------------------------------
(* Texts.  A text is a record of one shape, so that any two can be compared:
   kind "lit"      a fixed string of the program (lit)
   kind "model"    a text the generation capability returned (lit)
   kind "fallback" `Summary of ${total} messages:\n\n${mergedSummaries}`,
                   parts being the chunk summaries joined by the separator
   kind "emptyMerge" `Summary of ${total} messages (processed in ${n} chunks)` *)

Lit(s) == [kind |-> "lit", lit |-> s, total |-> 0, parts |-> <<>>]
ModelText(s) == [kind |-> "model", lit |-> s, total |-> 0, parts |-> <<>>]

NoMessagesText == Lit("No messages found in the specified time range.")
NoTextReturned == Lit("Generated summary (no text returned)")
NoText == Lit("")

\* what response.text can be: "" stands for an empty or missing text
ResponseTexts == {"", "a"}

\* the substrings of an error message that summarizeMessages looks for
Markers == {"API_KEY_INVALID", "401", "Unauthorized", "PERMISSION_DENIED", "403",
            "QUOTA_EXCEEDED", "429", "timeout", "TIMEOUT",
            "network", "ECONNREFUSED", "ENOTFOUND"}

\* an error message is the set of the markers it contains
ErrorMessages == {{m} : m \in Markers} \cup {{}, {"429", "timeout"}, {"403", "401"}}

\* one outcome of ai.models.generateContent
Outcomes == [ok : {TRUE}, text : ResponseTexts, err : {{}}]
            \cup [ok : {FALSE}, text : {""}, err : ErrorMessages]

\* the outcomes the handlers and jobs of the bot are run against: a text and a
\* quota error
BotOutcomes == {out \in Outcomes : (out.ok /\ out.text # "") \/ out.err = {"429"}}

Min(a, b) == IF a < b THEN a ELSE b

\* 2^n, Math.pow(2, attempt)
RECURSIVE Pow2(_)
Pow2(n) == IF n = 0 THEN 1 ELSE 2 * Pow2(n - 1)

\* Array.prototype.slice(from, to) with 0-based bounds, to exclusive
Slice(s, from, to) == SubSeq(s, from + 1, Min(to, Len(s)))

-----------------------------------------------------------------------------
(* GeminiService *)

\* the loop that splits messages into chunks
RECURSIVE SplitFrom(_, _, _)
SplitFrom(msgs, i, chunkSize) ==
    IF i < Len(msgs)
    THEN <<Slice(msgs, i, i + chunkSize)>> \o SplitFrom(msgs, i + chunkSize, chunkSize)
    ELSE <<>>

\* the split with chunks as long as the multi-chunk threshold
SplitChunksAtThreshold(msgs, chunkSize) == SplitFrom(msgs, 0, CHUNK_THRESHOLD)

SplitChunks(msgs, chunkSize) == SplitFrom(msgs, 0, chunkSize)

\* `[Chunk ${i + 1}/${chunks.length} - ${chunk.length} messages]:\n${chunkSummary}`
ChunkEntry(i, n, count, text) ==
    [idx |-> i + 1, of |-> n, count |-> count, text |-> text]

\* response.text returned as it is
ChunkTextAsIs(text) == ModelText(text)

\* response.text || 'Generated summary (no text returned)'
ChunkText(text) == IF text = "" THEN NoTextReturned ELSE ModelText(text)

\* response.text || `Summary of ${totalMessages} messages (processed in ...)`
MergeText(text, total, n) ==
    IF text = ""
    THEN [kind |-> "emptyMerge", lit |-> "", total |-> total, parts |-> <<n>>]
    ELSE ModelText(text)

\* `Summary of ${totalMessages} messages:\n\n${mergedSummaries}`
FallbackText(total, chunkSummaries) ==
    [kind |-> "fallback", lit |-> "", total |-> total, parts |-> chunkSummaries]

\* the error summarizeMessages throws for a failure of the single-chunk path
ClassifyError(err) ==
    IF err \cap {"API_KEY_INVALID", "401", "Unauthorized"} # {} THEN {"Invalid API key"}
    ELSE IF err \cap {"PERMISSION_DENIED", "403"} # {} THEN {"Permission denied"}
    ELSE IF err \cap {"QUOTA_EXCEEDED", "429"} # {} THEN {"API quota exceeded"}
    ELSE IF err \cap {"timeout", "TIMEOUT"} # {} THEN {"Request timeout"}
    ELSE IF err \cap {"network", "ECONNREFUSED", "ENOTFOUND"} # {} THEN {"Network error"}
    ELSE err

\* an invocation that has not been made
SmIdle == [pc |-> "idle", path |-> "none", totalMessages |-> 0, chunks |-> <<>>,
           i |-> 0, attempt |-> 0, chunkSummaries |-> <<>>, reqs |-> <<>>,
           replies |-> <<>>, waits |-> <<>>, result |-> NoText, error |-> {}]

\* a request to ai.models.generateContent, as the log of the invocation keeps it:
\* the chunk and the attempt it is for, and of the prompt the number of entries
\* (messages, or chunk summaries for the merge) and the first of them
ChunkRequest(i, attempt, chunk) ==
    [kind |-> "chunk", idx |-> i, attempt |-> attempt,
     count |-> Len(chunk), first |-> IF Len(chunk) = 0 THEN 0 ELSE chunk[1]]

MergeRequest(chunkSummaries) ==
    [kind |-> "merge", idx |-> Len(chunkSummaries), attempt |-> 0,
     count |-> Len(chunkSummaries), first |-> 0]

\* what the log keeps of the answer to a request: whether it succeeded, and its text
Reply(out) == [ok |-> out.ok, text |-> out.text]

\* the request for the chunk at hand sent together with the one for the chunk
\* after it, as a loop that does not await each chunk would
IssueChunkRequestAhead(s) ==
    [s EXCEPT !.pc = "chunkCall",
              !.reqs = IF s.i + 1 < Len(s.chunks) /\ s.attempt = 0
                       THEN @ \o <<ChunkRequest(s.i + 1, 0, s.chunks[s.i + 2]),
                                   ChunkRequest(s.i, s.attempt, s.chunks[s.i + 1])>>
                       ELSE Append(@, ChunkRequest(s.i, s.attempt, s.chunks[s.i + 1]))]

\* the request summarizeChunk sends for the chunk at hand
IssueChunkRequest(s) ==
    [s EXCEPT !.pc = "chunkCall",
              !.reqs = Append(@, ChunkRequest(s.i, s.attempt, s.chunks[s.i + 1]))]

\* the merge request of summarizeLargeMessageSet
IssueMergeRequest(s) ==
    [s EXCEPT !.pc = "mergeCall", !.reqs = Append(@, MergeRequest(s.chunkSummaries))]

\* summarizeMessages without its check for an empty input
summarizeMessagesNoEmptyCheck(msgs) ==
    IF Len(msgs) > CHUNK_THRESHOLD
    THEN IssueChunkRequest([SmIdle EXCEPT !.path = "multi", !.totalMessages = Len(msgs),
                                          !.chunks = SplitChunks(msgs, CHUNK_SIZE)])
    ELSE IssueChunkRequest([SmIdle EXCEPT !.path = "single", !.totalMessages = Len(msgs),
                                          !.chunks = <<msgs>>])

\* summarizeMessages taking the multi-chunk path from CHUNK_THRESHOLD messages on
summarizeMessagesFromThreshold(msgs) ==
    IF Len(msgs) = 0
    THEN [SmIdle EXCEPT !.pc = "done", !.path = "empty", !.result = NoMessagesText]
    ELSE IF Len(msgs) >= CHUNK_THRESHOLD
    THEN IssueChunkRequest([SmIdle EXCEPT !.path = "multi", !.totalMessages = Len(msgs),
                                          !.chunks = SplitChunks(msgs, CHUNK_SIZE)])
    ELSE IssueChunkRequest([SmIdle EXCEPT !.path = "single", !.totalMessages = Len(msgs),
                                          !.chunks = <<msgs>>])

\* summarizeMessages up to its first await
summarizeMessages(msgs) ==
    IF Len(msgs) = 0
    THEN [SmIdle EXCEPT !.pc = "done", !.path = "empty", !.result = NoMessagesText]
    ELSE IF Len(msgs) > CHUNK_THRESHOLD
    THEN IssueChunkRequest([SmIdle EXCEPT !.path = "multi", !.totalMessages = Len(msgs),
                                          !.chunks = SplitChunks(msgs, CHUNK_SIZE)])
    ELSE IssueChunkRequest([SmIdle EXCEPT !.path = "single", !.totalMessages = Len(msgs),
                                          !.chunks = <<msgs>>])

\* summarizeChunk returned `text` for chunk s.i: the rest of the loop body and what
\* follows it, up to the next await
ChunkDone(s, text) ==
    IF s.path = "single"
    THEN [s EXCEPT !.pc = "done", !.result = text]
    ELSE LET n == Len(s.chunks)
             sums == Append(s.chunkSummaries,
                            ChunkEntry(s.i, n, Len(s.chunks[s.i + 1]), text))
             s1 == [s EXCEPT !.chunkSummaries = sums, !.i = s.i + 1, !.attempt = 0]
         IN  IF s1.i < n THEN IssueChunkRequest(s1)
             ELSE IF Len(sums) = 1
             THEN [s1 EXCEPT !.pc = "done", !.result = ModelText("single chunk")]
             ELSE IssueMergeRequest(s1)

\* a chunk loop that puts a placeholder for a failed chunk and goes on
ChunkThrewGoesOn(s, err) ==
    ChunkDone(s, Lit("chunk failed"))

\* summarizeChunk threw `err`: summarizeMessages classifies on the single-chunk path,
\* summarizeLargeMessageSet lets it through
ChunkThrew(s, err) ==
    IF s.path = "single"
    THEN [s EXCEPT !.pc = "failed", !.error = ClassifyError(err)]
    ELSE [s EXCEPT !.pc = "failed", !.error = err]

\* a retry loop that waits and tries again after the last attempt as well
ChunkResponseOneMoreAttempt(s, out) ==
    LET s1 == [s EXCEPT !.replies = Append(@, Reply(out))]
    IN  IF out.ok THEN ChunkDone(s1, ChunkText(out.text))
        ELSE IF s.attempt < maxRetries
        THEN [s1 EXCEPT !.pc = "backoff",
                        !.waits = Append(@, baseDelay * Pow2(s.attempt))]
        ELSE ChunkThrew(s1, out.err)

\* generateContent answered the chunk request
ChunkResponse(s, out) ==
    LET s1 == [s EXCEPT !.replies = Append(@, Reply(out))]
    IN  IF out.ok THEN ChunkDone(s1, ChunkText(out.text))
        ELSE IF s.attempt < maxRetries - 1
        THEN [s1 EXCEPT !.pc = "backoff",
                        !.waits = Append(@, baseDelay * Pow2(s.attempt))]
        ELSE ChunkThrew(s1, out.err)

\* the backoff timer fired: the next attempt of the loop
BackoffOver(s) == IssueChunkRequest([s EXCEPT !.attempt = s.attempt + 1])

\* the merge request without its catch: a failure of the merge fails the call
MergeResponseThrows(s, out) ==
    LET s1 == [s EXCEPT !.replies = Append(@, Reply(out))]
    IN  IF out.ok
        THEN [s1 EXCEPT !.pc = "done",
                        !.result = MergeText(out.text, s.totalMessages, Len(s.chunks))]
        ELSE [s1 EXCEPT !.pc = "failed", !.error = out.err]

\* a merge request that is sent again when it failed
MergeResponseRetries(s, out) ==
    LET s1 == [s EXCEPT !.replies = Append(@, Reply(out))]
    IN  IF out.ok
        THEN [s1 EXCEPT !.pc = "done",
                        !.result = MergeText(out.text, s.totalMessages, Len(s.chunks))]
        ELSE IssueMergeRequest(s1)

\* generateContent answered the merge request
MergeResponse(s, out) ==
    LET s1 == [s EXCEPT !.replies = Append(@, Reply(out))]
    IN  IF out.ok
        THEN [s1 EXCEPT !.pc = "done",
                        !.result = MergeText(out.text, s.totalMessages, Len(s.chunks))]
        ELSE [s1 EXCEPT !.pc = "done",
                        !.result = FallbackText(s.totalMessages, s.chunkSummaries)]

(* the steps of the invocation task t awaits *)

SumChunkResponse(t, outs) ==
    /\ sm[t].pc = "chunkCall"
    /\ \E out \in outs : sm' = [sm EXCEPT ![t] = ChunkResponse(sm[t], out)]

SumBackoffOver(t) ==
    /\ sm[t].pc = "backoff"
    /\ sm' = [sm EXCEPT ![t] = BackoffOver(sm[t])]

SumMergeResponse(t, outs) ==
    /\ sm[t].pc = "mergeCall"
    /\ \E out \in outs : sm' = [sm EXCEPT ![t] = MergeResponse(sm[t], out)]

\* a step of the invocation, the capability answering with one of outs
SumStep(t, outs) ==
    SumChunkResponse(t, outs) \/ SumBackoffOver(t) \/ SumMergeResponse(t, outs)

SumReturned(t) == sm[t].pc = "done"
SumThrew(t) == sm[t].pc = "failed"

-----------------------------------------------------------------------------
(* Tasks, chats, users and the tables of Database *)

Handlers == {"h1", "h2"}
Tasks == {"direct", "evict", "sched", "initial"} \cup Handlers

Chats == {1, 2}
Users == {1, 2}              \* user ids; 0 stands for a missing user id
Pairs == Chats \X Users

RATE_LIMIT_SECONDS == 30
RetentionHours == 48
Hour == 60 * 60

\* the clock at the start, ten days after the epoch at 00:00 UTC
StartTime == 10 * 24 * Hour

\* a row of groups; key stands for gemini_api_key_encrypted IS NOT NULL
NoRow == [exists |-> FALSE, key |-> FALSE, enabled |-> FALSE]
GroupRow(key, enabled) == [exists |-> TRUE, key |-> key, enabled |-> enabled]
GroupRows == {NoRow} \cup {GroupRow(k, e) : k, e \in BOOLEAN}

\* a message content is a sequence of characters
StartsWithSlash(content) == Len(content) > 0 /\ content[1] = "/"

\* content.trim().length > 0
RECURSIVE TrimLeft(_)
TrimLeft(content) ==
    IF Len(content) > 0 /\ content[1] = " " THEN TrimLeft(Tail(content)) ELSE content

NotBlank(content) == Len(TrimLeft(content)) > 0

\* a row of messages
MessageRow(c, id, user, name, content, ts) ==
    [telegram_chat_id |-> c, message_id |-> id, user_id |-> user, username |-> name,
     first_name |-> "", content |-> content, timestamp |-> ts]

\* a row of group_settings
SettingsRow(bot, cmd, users, schedOn, freq, time, last) ==
    [exists |-> TRUE, exclude_bot_messages |-> bot, exclude_commands |-> cmd,
     excluded_user_ids |-> users, scheduled_enabled |-> schedOn,
     schedule_frequency |-> freq, schedule_time |-> time,
     last_scheduled_summary |-> last]

NoSettings == [exists |-> FALSE, exclude_bot_messages |-> FALSE,
               exclude_commands |-> FALSE, excluded_user_ids |-> {},
               scheduled_enabled |-> FALSE, schedule_frequency |-> "daily",
               schedule_time |-> <<9, 0>>, last_scheduled_summary |-> 0]

\* the row INSERT INTO group_settings (telegram_chat_id) creates
DefaultSettings == [NoSettings EXCEPT !.exists = TRUE]

(* Database *)

getGroup(c) == groups[c]

\* createGroup: a pending row, or no change to a row that is there
createGroup(c) ==
    [groups EXCEPT ![c] = IF @.exists THEN @ ELSE GroupRow(FALSE, TRUE)]

updateGroupApiKey(c) ==
    [groups EXCEPT ![c] = IF @.exists THEN [@ EXCEPT !.key = TRUE] ELSE @]

toggleGroupEnabled(c, enabled) ==
    [groups EXCEPT ![c] = IF @.exists THEN [@ EXCEPT !.enabled = enabled] ELSE @]

\* getGroupSettings: the row, created with the defaults when it is missing
getGroupSettings(c) == IF settings[c].exists THEN settings[c] ELSE DefaultSettings

createGroupSettings(c) ==
    [settings EXCEPT ![c] = IF @.exists THEN @ ELSE DefaultSettings]

Take(s, n) == SubSeq(s, 1, Min(n, Len(s)))
LastN(s, n) == SubSeq(s, Len(s) - Min(n, Len(s)) + 1, Len(s))

\* the rows of a chat are kept in timestamp order: timestamps are CURRENT_TIMESTAMP
\* at the insert, and rows of one model time stand in the order of their instants
getMessagesSinceTimestamp(c, since, limit) ==
    Take(SelectSeq(messages[c], LAMBDA m : m.timestamp >= since), Min(limit, 10000))

getLastNMessages(c, count) == LastN(messages[c], Min(count, 10000))

\* ORDER BY message_id ASC
RECURSIVE SortById(_)
SortById(rows) ==
    IF Len(rows) = 0 THEN <<>>
    ELSE LET k == CHOOSE k \in 1..Len(rows) :
                    \A j \in 1..Len(rows) : rows[k].message_id <= rows[j].message_id
         IN  <<rows[k]>> \o SortById(SubSeq(rows, 1, k - 1) \o SubSeq(rows, k + 1, Len(rows)))

getMessagesSinceMessageId(c, sinceMessageId, limit) ==
    Take(SortById(SelectSeq(messages[c], LAMBDA m : m.message_id >= sinceMessageId)),
         Min(limit, 10000))

Stale(m, hoursAgo) == m.timestamp < now - hoursAgo * Hour

StaleRows(c, hoursAgo) == SelectSeq(messages[c], LAMBDA m : Stale(m, hoursAgo))

\* the stale rows of the chats cs, ORDER BY telegram_chat_id, timestamp ASC
RECURSIVE StaleOfChats(_, _)
StaleOfChats(cs, hoursAgo) ==
    IF cs = {} THEN <<>>
    ELSE LET c == CHOOSE c \in cs : \A d \in cs : c <= d
         IN  StaleRows(c, hoursAgo) \o StaleOfChats(cs \ {c}, hoursAgo)

getMessagesToCleanup(hoursAgo) == StaleOfChats(Chats, hoursAgo)

\* a delete that takes the stale rows of the chats with an API key only
cleanupOldMessagesOfKeyed(hoursAgo) ==
    [c \in Chats |-> IF groups[c].key
                     THEN SelectSeq(messages[c], LAMBDA m : ~Stale(m, hoursAgo))
                     ELSE messages[c]]

cleanupOldMessages(hoursAgo) ==
    [c \in Chats |-> SelectSeq(messages[c], LAMBDA m : ~Stale(m, hoursAgo))]

HasMessage(c, id) == \E k \in 1..Len(messages[c]) : messages[c][k].message_id = id

\* an upsert that also takes the time of the re-delivery for the row
insertMessageRestamps(c, id, sender, content) ==
    IF HasMessage(c, id)
    THEN [messages EXCEPT ![c] =
            [k \in 1..Len(@) |->
                IF @[k].message_id = id
                THEN [@[k] EXCEPT !.content = content, !.username = sender.username,
                                  !.first_name = sender.first_name,
                                  !.user_id = sender.user_id, !.timestamp = now]
                ELSE @[k]]]
    ELSE [messages EXCEPT ![c] =
            Append(@, [MessageRow(c, id, sender.user_id, sender.username, content, now)
                          EXCEPT !.first_name = sender.first_name])]

\* insertMessage: INSERT ... ON CONFLICT (telegram_chat_id, message_id) DO UPDATE
insertMessage(c, id, sender, content) ==
    IF HasMessage(c, id)
    THEN [messages EXCEPT ![c] =
            [k \in 1..Len(@) |->
                IF @[k].message_id = id
                THEN [@[k] EXCEPT !.content = content, !.username = sender.username,
                                  !.first_name = sender.first_name,
                                  !.user_id = sender.user_id]
                ELSE @[k]]]
    ELSE [messages EXCEPT ![c] =
            Append(@, [MessageRow(c, id, sender.user_id, sender.username, content, now)
                          EXCEPT !.first_name = sender.first_name])]

-----------------------------------------------------------------------------
(* Commands: filterMessages and the /tldr handlers *)

\* a filter that drops only the first command of the input
filterMessagesFirstCommand(msgs, st) ==
    LET commands == {k \in 1..Len(msgs) : StartsWithSlash(msgs[k].content)}
        first == IF commands = {} THEN 0
                 ELSE CHOOSE k \in commands : \A j \in commands : k <= j
    IN  IF st.exclude_commands /\ first # 0
        THEN SubSeq(msgs, 1, first - 1) \o SubSeq(msgs, first + 1, Len(msgs))
        ELSE msgs

filterMessages(msgs, st) ==
    SelectSeq(msgs, LAMBDA m :
        /\ ~(st.exclude_bot_messages /\ m.user_id # 0 /\ m.username = "bot")
        /\ ~(st.exclude_commands /\ StartsWithSlash(m.content))
        /\ ~(m.user_id # 0 /\ m.user_id \in st.excluded_user_ids))

-----------------------------------------------------------------------------
(* The timeframe and count parser of Commands.  A string is a sequence of
   one-character strings. *)

Digits == {"0", "1", "2", "3", "4", "5", "6", "7", "8", "9"}

\* what \s of a regular expression, trim() and parseInt take for white space
WhiteSpace == {" ", "\t"}

digitValue(ch) ==
    CASE ch = "0" -> 0 [] ch = "1" -> 1 [] ch = "2" -> 2 [] ch = "3" -> 3 [] ch = "4" -> 4
      [] ch = "5" -> 5 [] ch = "6" -> 6 [] ch = "7" -> 7 [] ch = "8" -> 8 [] ch = "9" -> 9

\* String.prototype.toLowerCase, on the capital letters the inputs are made of
toLowerCase(s) ==
    [i \in 1..Len(s) |-> CASE s[i] = "H" -> "h" [] s[i] = "D" -> "d" [] s[i] = "W" -> "w"
                           [] OTHER -> s[i]]

\* String.prototype.trim
trim(s) ==
    LET inked == {i \in 1..Len(s) : s[i] \notin WhiteSpace}
    IN  IF inked = {} THEN <<>>
        ELSE SubSeq(s, CHOOSE i \in inked : \A j \in inked : i <= j,
                       CHOOSE i \in inked : \A j \in inked : i >= j)

RECURSIVE skipWhiteSpace(_)
skipWhiteSpace(s) ==
    IF s # <<>> /\ Head(s) \in WhiteSpace THEN skipWhiteSpace(Tail(s)) ELSE s

\* replace(/\s+/g, ' ')
RECURSIVE collapseWhiteSpace(_)
collapseWhiteSpace(s) ==
    IF s = <<>> THEN <<>>
    ELSE IF Head(s) \in WhiteSpace
         THEN <<" ">> \o collapseWhiteSpace(skipWhiteSpace(Tail(s)))
         ELSE <<Head(s)>> \o collapseWhiteSpace(Tail(s))

\* the length of the longest prefix of decimal digits
RECURSIVE digitsLen(_)
digitsLen(s) ==
    IF s = <<>> \/ Head(s) \notin Digits THEN 0 ELSE 1 + digitsLen(Tail(s))

\* the number a string of decimal digits writes
RECURSIVE decimal(_)
decimal(ds) ==
    IF ds = <<>> THEN 0
    ELSE 10 * decimal(SubSeq(ds, 1, Len(ds) - 1)) + digitValue(ds[Len(ds)])

NaN == [nan |-> TRUE, value |-> 0]

\* parseInt(s, 10): white space, a sign, then the longest run of digits; NaN when
\* there is no digit there
parseInt(s) ==
    LET t == skipWhiteSpace(s)
        signed == t # <<>> /\ Head(t) \in {"-", "+"}
        u == IF signed THEN Tail(t) ELSE t
        n == digitsLen(u)
    IN  IF n = 0 THEN NaN
        ELSE [nan |-> FALSE,
              value |-> IF signed /\ Head(t) = "-" THEN 0 - decimal(SubSeq(u, 1, n))
                        ELSE decimal(SubSeq(u, 1, n))]

\* /^\d+$/.test(input.toLowerCase().trim())
isCountBased(input) ==
    LET normalized == trim(toLowerCase(input))
    IN  normalized # <<>> /\ \A i \in 1..Len(normalized) : normalized[i] \in Digits

DefaultCount == 100
MaxCount == 10000

\* parseCount without the upper bound
parseCountUncapped(input) ==
    LET value == parseInt(trim(input))
    IN  IF value.nan \/ value.value <= 0 THEN DefaultCount ELSE value.value

parseCount(input) ==
    LET value == parseInt(trim(input))
    IN  IF value.nan \/ value.value <= 0 THEN DefaultCount
        ELSE Min(value.value, MaxCount)

\* the words of the spaced forms
DayWords == {<<"d", "a", "y">>, <<"d", "a", "y", "s">>}
HourWords == {<<"h", "o", "u", "r">>, <<"h", "o", "u", "r", "s">>, <<"h">>}
WeekWords == {<<"w", "e", "e", "k">>, <<"w", "e", "e", "k", "s">>}

\* normalized.match(/^(\d+)\s+(word|...)$/): digits, white space, one of the words
matches(normalized, words) ==
    LET n == digitsLen(normalized)
        rest == SubSeq(normalized, n + 1, Len(normalized))
    IN  n > 0 /\ rest # <<>> /\ Head(rest) \in WhiteSpace /\ skipWhiteSpace(rest) \in words

\* the first group of the match
matched(normalized) == decimal(SubSeq(normalized, 1, digitsLen(normalized)))

endsWith(s, ch) == s # <<>> /\ s[Len(s)] = ch

\* slice(0, -1)
allButLast(s) == SubSeq(s, 1, Len(s) - 1)

MAX_HOURS == 168

\* hours with no cap on the days of the spaced form
hoursOfUncappedDays(timeframe) ==
    LET normalized == collapseWhiteSpace(trim(toLowerCase(timeframe)))
    IN  IF matches(normalized, DayWords) THEN matched(normalized) * 24
        ELSE IF matches(normalized, HourWords) THEN Min(matched(normalized), MAX_HOURS)
        ELSE IF matches(normalized, WeekWords) THEN Min(matched(normalized), 1) * 168
        ELSE IF endsWith(normalized, "h")
             THEN LET value == parseInt(allButLast(normalized))
                  IN  IF value.nan \/ value.value <= 0 THEN 1
                      ELSE Min(value.value, MAX_HOURS)
        ELSE IF endsWith(normalized, "d") \/ normalized = <<"d", "a", "y">>
             THEN LET value == IF normalized = <<"d", "a", "y">>
                               THEN [nan |-> FALSE, value |-> 1]
                               ELSE parseInt(allButLast(normalized))
                  IN  IF value.nan \/ value.value <= 0 THEN 24
                      ELSE Min(value.value, 7) * 24
        ELSE IF normalized = <<"w", "e", "e", "k">> THEN 168
        ELSE LET value == parseInt(normalized)
             IN  IF ~value.nan /\ value.value > 0 THEN Min(value.value, MAX_HOURS)
                 ELSE 1

\* the hours parseTimeframe resolves its input to
hours(timeframe) ==
    LET normalized == collapseWhiteSpace(trim(toLowerCase(timeframe)))
    IN  IF matches(normalized, DayWords) THEN Min(matched(normalized), 7) * 24
        ELSE IF matches(normalized, HourWords) THEN Min(matched(normalized), MAX_HOURS)
        ELSE IF matches(normalized, WeekWords) THEN Min(matched(normalized), 1) * 168
        ELSE IF endsWith(normalized, "h")
             THEN LET value == parseInt(allButLast(normalized))
                  IN  IF value.nan \/ value.value <= 0 THEN 1
                      ELSE Min(value.value, MAX_HOURS)
        ELSE IF endsWith(normalized, "d") \/ normalized = <<"d", "a", "y">>
             THEN LET value == IF normalized = <<"d", "a", "y">>
                               THEN [nan |-> FALSE, value |-> 1]
                               ELSE parseInt(allButLast(normalized))
                  IN  IF value.nan \/ value.value <= 0 THEN 24
                      ELSE Min(value.value, 7) * 24
        ELSE IF normalized = <<"w", "e", "e", "k">> THEN 168
        ELSE LET value == parseInt(normalized)
             IN  IF ~value.nan /\ value.value > 0 THEN Min(value.value, MAX_HOURS)
                 ELSE 1

\* the cutoff: new Date(now - hours * 60 * 60 * 1000)
parseTimeframe(timeframe) == now - hours(timeframe) * Hour

\* the locals of the part of handleTLDR that reads the selection: text is the
\* message text after the command, input what the handler passes to the parser,
\* count and since what the parser returns, at the clock at the call of the parser
ParseIdle == [pc |-> "idle", text |-> <<>>, input |-> <<>>, kind |-> "none",
              count |-> 0, since |-> 0, at |-> 0]

\* handleTLDR: args.slice(1).join(' ').trim() || '1h'
ReadInput ==
    /\ parsed.pc = "idle"
    /\ parsed' = [parsed EXCEPT !.pc = "input",
                                !.input = IF trim(parsed.text) = <<>> THEN <<"1", "h">>
                                          ELSE trim(parsed.text)]
    /\ UNCHANGED <<now, dbVars, limiterVars, sm, direct, tldr, evict, sched, orphan, host,
                   lastSent, caller, caching>>

\* handleTLDR after the loading message: a count of messages or a cutoff
Select ==
    /\ parsed.pc = "input"
    /\ parsed' = IF isCountBased(parsed.input)
                 THEN [parsed EXCEPT !.pc = "selected", !.kind = "count", !.at = now,
                                     !.count = parseCount(parsed.input)]
                 ELSE [parsed EXCEPT !.pc = "selected", !.kind = "time", !.at = now,
                                     !.since = parseTimeframe(parsed.input)]
    /\ UNCHANGED <<now, dbVars, limiterVars, sm, direct, tldr, evict, sched, orphan, host,
                   lastSent, caller, caching>>

\* what a /tldr asks for, as isCountBased, parseCount and parseTimeframe resolve its
\* text: the last n messages, or the messages of the last hours
Selections == {[kind |-> "count", n |-> 1, hours |-> 0],
               [kind |-> "count", n |-> 100, hours |-> 0],
               [kind |-> "time", n |-> 0, hours |-> 1]}

\* the locals of a handler, and what it did: reads counts its reads of the
\* messages table, calls its calls of summarizeMessages, checked is the group row
\* its configuration check saw, fresh tells that the pair made no /tldr in the
\* RATE_LIMIT_SECONDS before this one.  Locals are dropped once no later step
\* reads them.
TldrIdle == [pc |-> "idle", chat |-> 1, user |-> 1, replyTo |-> 0, fresh |-> FALSE,
             sel |-> [kind |-> "time", n |-> 0, hours |-> 1],
             msgs |-> <<>>, checked |-> NoRow,
             reads |-> 0, calls |-> 0, outcome |-> "none"]

\* a limiter with a third of the window
RateLimitedShortWindow(key) ==
    rateLimitMap[key] # 0 /\ now - rateLimitMap[key] < RATE_LIMIT_SECONDS \div 3

\* the rate limiter of handleTLDR and of handleTLDRFromMessage
RateLimited(key) ==
    rateLimitMap[key] # 0 /\ now - rateLimitMap[key] < RATE_LIMIT_SECONDS

\* the handler returns, having answered with `outcome`
Finish(r, outcome) ==
    [r EXCEPT !.pc = "done", !.outcome = outcome, !.msgs = <<>>,
              !.sel = TldrIdle.sel, !.replyTo = IF @ = 0 THEN 0 ELSE 1]

\* !group || !group.gemini_api_key_encrypted
NotConfigured(group) == ~group.exists \/ ~group.key

\* a check of group.enabled that passes every group
DisabledNever(group) == FALSE

\* !group.enabled
Disabled(group) == ~group.enabled

\* a new request takes the first free handler
Free(h) ==
    /\ tldr[h].pc \in {"idle", "done"}
    /\ h = "h2" => tldr["h1"].pc \notin {"idle", "done"}

MessageIds(c) == {messages[c][k].message_id : k \in 1..Len(messages[c])}

\* a handleTLDR that stores the time of every request, the rejected ones as well
TldrStartStampsRejected(h, c, users) ==
    /\ Free(h)
    /\ \E u \in users, sel \in Selections, r \in {0} \cup MessageIds(c) :
         LET last == lastRequest[<<c, u>>]
             req == [TldrIdle EXCEPT !.chat = c, !.user = u, !.replyTo = r, !.sel = sel,
                        !.fresh = (last = 0 \/ now - last >= RATE_LIMIT_SECONDS)]
         IN  /\ lastRequest' = [lastRequest EXCEPT ![<<c, u>>] = now]
             /\ rateLimitMap' = [rateLimitMap EXCEPT ![<<c, u>>] = now]
             /\ IF RateLimited(<<c, u>>)
                THEN /\ tldr' = [tldr EXCEPT ![h] = Finish(req, "wait")]
                     /\ UNCHANGED accepted
                ELSE /\ tldr' = [tldr EXCEPT ![h] = [req EXCEPT !.pc = "getGroup"]]
                     /\ accepted' = [accepted EXCEPT ![<<c, u>>] = now]
    /\ sm' = [sm EXCEPT ![h] = SmIdle]
    /\ UNCHANGED <<now, dbVars, direct, hostVars, evict, sched>>

\* handleTLDR from the command to `await this.db.getGroup`
TldrStart(h, c, users) ==
    /\ Free(h)
    /\ \E u \in users, sel \in Selections, r \in {0} \cup MessageIds(c) :
         LET last == lastRequest[<<c, u>>]
             req == [TldrIdle EXCEPT !.chat = c, !.user = u, !.replyTo = r, !.sel = sel,
                        !.fresh = (last = 0 \/ now - last >= RATE_LIMIT_SECONDS)]
         IN  /\ lastRequest' = [lastRequest EXCEPT ![<<c, u>>] = now]
             /\ IF RateLimited(<<c, u>>)
                THEN /\ tldr' = [tldr EXCEPT ![h] = Finish(req, "wait")]
                     /\ UNCHANGED <<rateLimitMap, accepted>>
                ELSE /\ tldr' = [tldr EXCEPT ![h] = [req EXCEPT !.pc = "getGroup"]]
                     /\ rateLimitMap' = [rateLimitMap EXCEPT ![<<c, u>>] = now]
                     /\ accepted' = [accepted EXCEPT ![<<c, u>>] = now]
    /\ sm' = [sm EXCEPT ![h] = SmIdle]
    /\ UNCHANGED <<now, dbVars, direct, hostVars, evict, sched>>

\* getGroup answered: the configuration check, and for a reply the entry of
\* handleTLDRFromMessage up to its `await this.db.getGroup`
TldrGroup(h) ==
    /\ tldr[h].pc = "getGroup"
    /\ LET group == getGroup(tldr[h].chat)
           key == <<tldr[h].chat, tldr[h].user>>
           seen == [tldr[h] EXCEPT !.checked = group]
       IN  IF NotConfigured(group)
           THEN /\ tldr' = [tldr EXCEPT ![h] = Finish(seen, "notConfigured")]
                /\ UNCHANGED rateLimitMap
           ELSE IF Disabled(group)
           THEN /\ tldr' = [tldr EXCEPT ![h] = Finish(seen, "disabled")]
                /\ UNCHANGED rateLimitMap
           ELSE IF tldr[h].replyTo # 0
           THEN IF RateLimited(key)
                THEN /\ tldr' = [tldr EXCEPT ![h] = Finish(seen, "wait")]
                     /\ UNCHANGED rateLimitMap
                ELSE /\ tldr' = [tldr EXCEPT ![h] = [seen EXCEPT !.pc = "getGroup2"]]
                     /\ rateLimitMap' = [rateLimitMap EXCEPT ![key] = now]
           ELSE /\ tldr' = [tldr EXCEPT ![h] = [seen EXCEPT !.pc = "read"]]
                /\ UNCHANGED rateLimitMap
    /\ UNCHANGED <<now, dbVars, accepted, lastRequest, sm, direct, hostVars, evict, sched>>

\* handleTLDRFromMessage: getGroup answered; group.gemini_api_key_encrypted of a
\* missing row is a TypeError, and decrypt fails on a null key
TldrGroup2(h) ==
    /\ tldr[h].pc = "getGroup2"
    /\ LET group == getGroup(tldr[h].chat)
       IN  IF ~group.exists \/ ~group.key
           THEN tldr' = [tldr EXCEPT ![h] = Finish(@, "error")]
           ELSE tldr' = [tldr EXCEPT ![h].pc = "read"]
    /\ UNCHANGED <<now, dbVars, rateLimitMap, accepted, lastRequest, sm, direct, hostVars, evict, sched>>

\* the repository read: getLastNMessages, getMessagesSinceTimestamp or
\* getMessagesSinceMessageId
TldrRead(h) ==
    /\ tldr[h].pc = "read"
    /\ LET r == tldr[h]
           msgs == IF r.replyTo # 0
                   THEN getMessagesSinceMessageId(r.chat, r.replyTo, 10000)
                   ELSE IF r.sel.kind = "count"
                   THEN getLastNMessages(r.chat, r.sel.n)
                   ELSE getMessagesSinceTimestamp(r.chat, now - r.sel.hours * Hour, 10000)
           read == [r EXCEPT !.reads = @ + 1]
       IN  IF Len(msgs) = 0
           THEN tldr' = [tldr EXCEPT ![h] = Finish(read, "noMessages")]
           ELSE tldr' = [tldr EXCEPT ![h] = [read EXCEPT !.pc = "settings", !.msgs = msgs,
                                                         !.sel = TldrIdle.sel]]
    /\ UNCHANGED <<now, dbVars, rateLimitMap, accepted, lastRequest, sm, direct, hostVars, evict, sched>>

\* getGroupSettings answered: the filter, and summarizeMessages up to its first await
TldrSettings(h) ==
    /\ tldr[h].pc = "settings"
    /\ LET st == getGroupSettings(tldr[h].chat)
           filteredMessages == filterMessages(tldr[h].msgs, st)
       IN  IF Len(filteredMessages) = 0
           THEN /\ tldr' = [tldr EXCEPT ![h] = Finish(@, "noneAfterFilter")]
                /\ UNCHANGED sm
           ELSE /\ tldr' = [tldr EXCEPT ![h].pc = "summarizing", ![h].msgs = <<>>,
                                        ![h].calls = @ + 1]
                /\ sm' = [sm EXCEPT ![h] = summarizeMessages(filteredMessages)]
    /\ settings' = createGroupSettings(tldr[h].chat)
    /\ UNCHANGED <<now, groups, messages, summaries, rateLimitMap, accepted, lastRequest,
                   direct, hostVars, evict, sched>>

TldrSum(h) ==
    /\ tldr[h].pc = "summarizing"
    /\ SumStep(h, BotOutcomes)
    /\ UNCHANGED <<botVars, direct>>

\* the summary came back: it is rendered and sent
TldrReturn(h) ==
    /\ tldr[h].pc = "summarizing"
    /\ SumReturned(h)
    /\ tldr' = [tldr EXCEPT ![h] = Finish(@, "summary")]
    /\ sm' = [sm EXCEPT ![h] = SmIdle]
    /\ UNCHANGED <<now, dbVars, rateLimitMap, accepted, lastRequest, direct, hostVars, evict, sched>>

\* the catch block: summarizeMessages threw
TldrThrow(h) ==
    /\ tldr[h].pc = "summarizing"
    /\ SumThrew(h)
    /\ tldr' = [tldr EXCEPT ![h] = Finish(@, "error")]
    /\ sm' = [sm EXCEPT ![h] = SmIdle]
    /\ UNCHANGED <<now, dbVars, rateLimitMap, accepted, lastRequest, direct, hostVars, evict, sched>>

\* the catch block: a repository call threw
TldrDbError(h) ==
    /\ tldr[h].pc \in {"getGroup", "getGroup2", "read", "settings"}
    /\ tldr' = [tldr EXCEPT ![h] = Finish(@, "error")]
    /\ UNCHANGED <<now, dbVars, rateLimitMap, accepted, lastRequest, sm, direct, hostVars, evict, sched>>

-----------------------------------------------------------------------------
(* The environment: the other handlers, as far as they change the tables *)

tapVars == <<rateLimitMap, accepted, lastRequest, sm, direct, tldr, evict, sched,
             orphan, host, lastSent, parsed, caching>>

envVars == <<tapVars, caller>>

\* who taps a button under a menu of the group: an administrator or creator of the
\* chat, or another member
Callers == {"admin", "member"}

\* handleSetup / handleSetupGroup: createGroup
SetupGroup(c) ==
    /\ groups' = createGroup(c)
    /\ UNCHANGED <<now, settings, messages, summaries, envVars>>

\* the setupApiKey conversation: updateGroupApiKey
SetupApiKey(c) ==
    /\ groups[c].exists
    /\ groups' = updateGroupApiKey(c)
    /\ UNCHANGED <<now, settings, messages, summaries, envVars>>

handleEnable(c) ==
    /\ groups[c].exists
    /\ groups' = toggleGroupEnabled(c, TRUE)
    /\ UNCHANGED <<now, settings, messages, summaries, envVars>>

handleDisable(c) ==
    /\ groups[c].exists
    /\ groups' = toggleGroupEnabled(c, FALSE)
    /\ UNCHANGED <<now, settings, messages, summaries, envVars>>

\* deleteGroup, with ON DELETE CASCADE on messages
RemoveGroup(c) ==
    /\ groups[c].exists
    /\ groups' = [groups EXCEPT ![c] = NoRow]
    /\ messages' = [messages EXCEPT ![c] = <<>>]
    /\ UNCHANGED <<now, settings, summaries, envVars>>

\* the buttons of the settings menus, tapped by `who` for chat c: the chat is taken
\* from the callback data, the update is made, and the menu is shown again by
\* handleSchedule or handleFilter, which look at the caller
handleScheduleToggle(c) ==
    /\ settings' = [createGroupSettings(c) EXCEPT
                        ![c].scheduled_enabled = ~getGroupSettings(c).scheduled_enabled]
    /\ \E who \in Callers : caller' = who
    /\ UNCHANGED <<now, groups, messages, summaries, tapVars>>

\* updateGroupSettings is an UPDATE: without a row it changes nothing;
\* handleSchedule reads the settings, and so creates the row, for an admin only
handleScheduleFrequency(c) ==
    /\ \E who \in Callers, frequency \in {"daily", "weekly"} :
         /\ caller' = who
         /\ settings' = [settings EXCEPT ![c] =
                IF @.exists THEN [@ EXCEPT !.schedule_frequency = frequency]
                ELSE IF who = "admin" THEN DefaultSettings ELSE @]
    /\ UNCHANGED <<now, groups, messages, summaries, tapVars>>

handleFilterBot(c) ==
    /\ settings' = [createGroupSettings(c) EXCEPT
                        ![c].exclude_bot_messages = ~getGroupSettings(c).exclude_bot_messages]
    /\ \E who \in Callers : caller' = who
    /\ UNCHANGED <<now, groups, messages, summaries, tapVars>>

handleFilterCmd(c) ==
    /\ settings' = [createGroupSettings(c) EXCEPT
                        ![c].exclude_commands = ~getGroupSettings(c).exclude_commands]
    /\ \E who \in Callers : caller' = who
    /\ UNCHANGED <<now, groups, messages, summaries, tapVars>>

\* the returns of processMessageForCache before its insertMessage: the message
\* is one the settings exclude, or it has no text
CacheSkips(st, sender, content) ==
    \/ st.exclude_commands /\ StartsWithSlash(content)
    \/ st.exclude_bot_messages /\ sender.is_bot
    \/ sender.user_id # 0 /\ sender.user_id \in st.excluded_user_ids
    \/ Len(content) = 0

\* the locals of processMessageForCache between its awaits: the chat, the message
\* id, ctx.from and the text of the update it was called for
NoSender == [user_id |-> 0, username |-> "", first_name |-> "", is_bot |-> FALSE]
CacheIdle == [pc |-> "idle", chat |-> 0, id |-> 0, sender |-> NoSender, content |-> <<>>,
              outcome |-> "none"]

\* a table of messages without the reference to groups
ForeignKeyUnchecked(c) == TRUE

\* messages.telegram_chat_id REFERENCES groups(telegram_chat_id): an insert for a
\* chat without a row of groups is refused
ForeignKeyHolds(c) == groups[c].exists

\* an update with a message of the group c is delivered: processMessageForCache up
\* to `await this.db.getGroup`
CacheStart(c, id, sender, content) ==
    /\ caching.pc \in {"idle", "done"}
    /\ caching' = [CacheIdle EXCEPT !.pc = "getGroup", !.chat = c, !.id = id,
                                    !.sender = sender, !.content = content]
    /\ UNCHANGED <<now, dbVars, limiterVars, sm, direct, tldr, evict, sched, orphan, host,
                   lastSent, caller, parsed>>

\* getGroup answered: without a row the handler returns, else it goes on to
\* `await this.db.getGroupSettings`
CacheGroup ==
    /\ caching.pc = "getGroup"
    /\ caching' = IF getGroup(caching.chat).exists
                  THEN [caching EXCEPT !.pc = "getSettings"]
                  ELSE [caching EXCEPT !.pc = "done", !.outcome = "not configured"]
    /\ UNCHANGED <<now, dbVars, limiterVars, sm, direct, tldr, evict, sched, orphan, host,
                   lastSent, caller, parsed>>

\* getGroupSettings answered: the three exclusions and the check for a text, up to
\* `await this.db.insertMessage`
CacheSettings ==
    /\ caching.pc = "getSettings"
    /\ settings' = createGroupSettings(caching.chat)
    /\ caching' = IF CacheSkips(getGroupSettings(caching.chat), caching.sender,
                                caching.content)
                  THEN [caching EXCEPT !.pc = "done", !.outcome = "skipped"]
                  ELSE [caching EXCEPT !.pc = "insert"]
    /\ UNCHANGED <<now, groups, messages, summaries, limiterVars, sm, direct, tldr, evict,
                   sched, orphan, host, lastSent, caller, parsed>>

\* insertMessage ran: the row is written, or the insert is refused for the
\* reference to groups and the catch block logs it
CacheInsert ==
    /\ caching.pc = "insert"
    /\ IF ForeignKeyHolds(caching.chat)
       THEN /\ messages' = insertMessage(caching.chat, caching.id, caching.sender,
                                         caching.content)
            /\ caching' = [caching EXCEPT !.pc = "done", !.outcome = "cached"]
       ELSE /\ UNCHANGED messages
            /\ caching' = [caching EXCEPT !.pc = "done", !.outcome = "refused"]
    /\ UNCHANGED <<now, groups, settings, summaries, limiterVars, sm, direct, tldr, evict,
                   sched, orphan, host, lastSent, caller, parsed>>

\* a repository call of the handler threw: both catch blocks end the handler
CacheDbError ==
    /\ caching.pc \in {"getGroup", "getSettings", "insert"}
    /\ caching' = [caching EXCEPT !.pc = "done", !.outcome = "error"]
    /\ UNCHANGED <<now, dbVars, limiterVars, sm, direct, tldr, evict, sched, orphan, host,
                   lastSent, caller, parsed>>

\* the steps of the handler after its start
CacheRun == CacheGroup \/ CacheSettings \/ CacheInsert \/ CacheDbError

\* handleMessageCache / handleEditedMessageCache: processMessageForCache
processMessageForCache(c, id, sender, content) ==
    /\ groups[c].exists
    /\ LET st == getGroupSettings(c)
       IN  /\ settings' = createGroupSettings(c)
           /\ IF CacheSkips(st, sender, content)
              THEN UNCHANGED messages
              ELSE messages' = insertMessage(c, id, sender, content)
    /\ UNCHANGED <<now, groups, summaries, envVars>>

\* time passes, by a third of the rate limit window
SecondsPass ==
    /\ now < StartTime + MaxTicks * (RATE_LIMIT_SECONDS \div 3)
    /\ now' = now + RATE_LIMIT_SECONDS \div 3
    /\ UNCHANGED <<dbVars, envVars>>

\* time passes, by the window of the rate limiter
WindowPasses ==
    /\ now < StartTime + MaxJumps * RATE_LIMIT_SECONDS
    /\ now' = now + RATE_LIMIT_SECONDS
    /\ UNCHANGED <<dbVars, envVars>>

\* the group commands and conversations
GroupAdmin(c) ==
    \/ SetupGroup(c) \/ SetupApiKey(c) \/ handleEnable(c) \/ handleDisable(c)
    \/ RemoveGroup(c)

-----------------------------------------------------------------------------
(* TLDRBot.start: the callbacks of the timers *)

\* a callback whose rejection nothing handles: the process ends
TickUncaught(h) == [h EXCEPT !.alive = FALSE]

\* try { await ... } catch (error) { console.error(...) } around the job of a
\* timer callback: the failure is logged, the callback ends, and the process and
\* its timers are as they were
TickCaught(h) == h

-----------------------------------------------------------------------------
(* TLDRBot.summarizeAndCleanupOldMessages: the eviction run *)

\* a row of summaries; message_ids is history: the messages the text was made of
SummaryRow(c, text, count, periodStart, periodEnd) ==
    [telegram_chat_id |-> c, summary_text |-> text, message_count |-> count,
     period_start |-> periodStart, period_end |-> periodEnd, created_at |-> 0,
     message_ids |-> {}]

\* an insert that overwrites the text and the count of the row with its key
insertSummaryOverwrites(row) ==
    IF \E k \in 1..Len(summaries) :
            /\ summaries[k].telegram_chat_id = row.telegram_chat_id
            /\ summaries[k].period_start = row.period_start
            /\ summaries[k].period_end = row.period_end
    THEN [k \in 1..Len(summaries) |->
            IF /\ summaries[k].telegram_chat_id = row.telegram_chat_id
               /\ summaries[k].period_start = row.period_start
               /\ summaries[k].period_end = row.period_end
            THEN [row EXCEPT !.created_at = now] ELSE summaries[k]]
    ELSE Append(summaries, [row EXCEPT !.created_at = now])

\* insertSummary: INSERT ... ON CONFLICT (telegram_chat_id, period_start,
\* period_end) DO NOTHING
insertSummary(row) ==
    IF \E k \in 1..Len(summaries) :
            /\ summaries[k].telegram_chat_id = row.telegram_chat_id
            /\ summaries[k].period_start = row.period_start
            /\ summaries[k].period_end = row.period_end
    THEN summaries
    ELSE Append(summaries, [row EXCEPT !.created_at = now])    \* DEFAULT CURRENT_TIMESTAMP

\* the keys of messagesByChat, in insertion order
RECURSIVE ChatOrder(_)
ChatOrder(msgs) ==
    IF Len(msgs) = 0 THEN <<>>
    ELSE LET c == msgs[1].telegram_chat_id
         IN  <<c>> \o ChatOrder(SelectSeq(msgs, LAMBDA m : m.telegram_chat_id # c))

\* the message as summarizeMessages gets it
FormatMessage(m) ==
    [username |-> m.username, content |-> m.content, timestamp |-> m.timestamp]

FormatMessages(msgs) == [k \in 1..Len(msgs) |-> FormatMessage(msgs[k])]

\* the first and the last of the sorted timestamps; 0 stands for undefined
Timestamps(msgs) == {msgs[k].timestamp : k \in 1..Len(msgs)}
PeriodStart(msgs) ==
    IF Len(msgs) = 0 THEN 0
    ELSE CHOOSE t \in Timestamps(msgs) : \A u \in Timestamps(msgs) : t <= u
PeriodEnd(msgs) ==
    IF Len(msgs) = 0 THEN 0
    ELSE CHOOSE t \in Timestamps(msgs) : \A u \in Timestamps(msgs) : u <= t

\* the check of the eviction run on the group row: !group ||
\* !group.gemini_api_key_encrypted
EvictSkipsGroup(group) == ~group.exists \/ ~group.key

\* an eviction run that summarizes whatever the filter left
NoValidMessagesNever(validMessages) == FALSE

\* validMessages.length === 0
NoValidMessages(validMessages) == Len(validMessages) = 0

\* the locals of a run, and what it did: calledFor holds, for the chats it called
\* summarizeMessages for, the group row at that moment; skipped the chats it left
\* out for want of valid messages, threw the chats whose summarizeMessages call
\* threw, failed the chats whose try block threw, inserted the chats it ran
\* insertSummary for, repeated the keys (chat, period start, period end) of the
\* inserts that found a row of their key in the table, fetched the keys of the rows
\* getMessagesToCleanup returned
EvictIdle == [pc |-> "idle", queue |-> <<>>, byChat |-> [c \in Chats |-> <<>>],
              chat |-> 0, found |-> 0, row |-> SummaryRow(0, NoText, 0, 0, 0),
              calledFor |-> [c \in Chats |-> NoRow], skipped |-> {}, threw |-> {},
              failed |-> {},
              inserted |-> {}, repeated |-> {}, totalSummarized |-> 0,
              totalDeleted |-> 0, cleanups |-> 0, outcome |-> "none", fetched |-> {}]

\* the keys (chat, message id) of rows of messages
RowKeys(rows) == {<<rows[k].telegram_chat_id, rows[k].message_id>> : k \in 1..Len(rows)}

\* the loop goes on to the next chat, or past its end to the call of
\* cleanupOldMessages
EvictNext(e) ==
    LET e1 == [e EXCEPT !.byChat[e.chat] = <<>>, !.row = EvictIdle.row]
    IN  IF Len(e.queue) = 0
        THEN [e1 EXCEPT !.pc = "cleanup", !.chat = 0, !.cleanups = @ + 1]
        ELSE [e1 EXCEPT !.pc = "getGroup", !.chat = Head(e.queue), !.queue = Tail(e.queue)]

\* a loop body without its catch block: the failure ends the run
EvictCatchAborts(e) ==
    [e EXCEPT !.failed = @ \cup {e.chat}, !.pc = "done", !.outcome = "threw"]

\* the catch block of the loop body: the loop goes on with the next chat
EvictCatch(e) == EvictNext([e EXCEPT !.failed = @ \cup {e.chat}])

\* the timer fires: the run up to `await this.db.getMessagesToCleanup`
EvictStart ==
    /\ host.alive /\ ~host.cleared
    /\ evict.pc \in {"idle", "done"}
    /\ evict' = [EvictIdle EXCEPT !.pc = "getMessages"]
    /\ sm' = [sm EXCEPT !["evict"] = SmIdle]
    /\ UNCHANGED <<now, dbVars, limiterVars, direct, hostVars, tldr, sched>>

\* the stale rows came back: they are grouped by chat, and the loop starts
EvictMessages ==
    /\ evict.pc = "getMessages"
    /\ LET messagesToCleanup == getMessagesToCleanup(RetentionHours)
           messagesByChat == [c \in Chats |->
                SelectSeq(messagesToCleanup, LAMBDA m : m.telegram_chat_id = c)]
           order == ChatOrder(messagesToCleanup)
       IN  IF Len(messagesToCleanup) = 0
           THEN evict' = [evict EXCEPT !.pc = "done", !.outcome = "nothing"]
           ELSE evict' = [evict EXCEPT !.pc = "getGroup", !.found = Len(messagesToCleanup),
                                       !.byChat = messagesByChat,
                                       !.fetched = RowKeys(messagesToCleanup),
                                       !.chat = Head(order), !.queue = Tail(order)]
    /\ UNCHANGED <<now, dbVars, limiterVars, sm, direct, hostVars, tldr, sched>>

\* valid messages that also pass filterMessages under the settings of their chat
ValidMessagesUnderSettings(msgs) ==
    IF msgs = <<>> THEN <<>>
    ELSE filterMessages(SelectSeq(msgs, LAMBDA m : NotBlank(m.content)),
                        getGroupSettings(msgs[1].telegram_chat_id))

\* messages.filter(msg => msg.content && msg.content.trim().length > 0)
ValidMessages(msgs) == SelectSeq(msgs, LAMBDA m : NotBlank(m.content))

\* getGroup answered: the loop body up to `await gemini.summarizeMessages`
EvictGroup ==
    /\ evict.pc = "getGroup"
    /\ LET chatId == evict.chat
           group == getGroup(chatId)
           validMessages == ValidMessages(evict.byChat[chatId])
       IN  IF EvictSkipsGroup(group)
           THEN /\ evict' = EvictNext(evict)
                /\ UNCHANGED sm
           ELSE IF NoValidMessages(validMessages)
           THEN /\ evict' = EvictNext([evict EXCEPT !.skipped = @ \cup {chatId}])
                /\ UNCHANGED sm
           ELSE /\ evict' = [evict EXCEPT
                                !.pc = "summarizing", !.byChat[chatId] = <<>>,
                                !.calledFor[chatId] = group,
                                !.row = [SummaryRow(chatId, NoText, Len(validMessages),
                                                    PeriodStart(validMessages),
                                                    PeriodEnd(validMessages))
                                            EXCEPT !.message_ids = RowKeys(validMessages)]]
                /\ sm' = [sm EXCEPT !["evict"] = summarizeMessages(FormatMessages(validMessages))]
    /\ UNCHANGED <<now, dbVars, limiterVars, direct, hostVars, tldr, sched>>

EvictSum ==
    /\ evict.pc = "summarizing"
    /\ SumStep("evict", BotOutcomes)
    /\ UNCHANGED <<botVars, direct>>

\* the summary came back: up to `await this.db.insertSummary`
EvictReturn ==
    /\ evict.pc = "summarizing"
    /\ SumReturned("evict")
    /\ evict' = [evict EXCEPT !.pc = "insert", !.row.summary_text = sm["evict"].result]
    /\ sm' = [sm EXCEPT !["evict"] = SmIdle]
    /\ UNCHANGED <<now, dbVars, limiterVars, direct, hostVars, tldr, sched>>

\* summarizeMessages threw
EvictThrow ==
    /\ evict.pc = "summarizing"
    /\ SumThrew("evict")
    /\ evict' = EvictCatch([evict EXCEPT !.threw = @ \cup {evict.chat}])
    /\ sm' = [sm EXCEPT !["evict"] = SmIdle]
    /\ UNCHANGED <<now, dbVars, limiterVars, direct, hostVars, tldr, sched>>

\* the key of a row of summaries
SummaryKey(row) == <<row.telegram_chat_id, row.period_start, row.period_end>>

\* the rows of summaries with the key of row
SummariesOf(row) == SelectSeq(summaries, LAMBDA r : SummaryKey(r) = SummaryKey(row))

\* a run that ends, without the deletion, when insertSummary found the key present
EvictInsertGated ==
    /\ evict.pc = "insert"
    /\ summaries' = insertSummary(evict.row)
    /\ evict' = IF Len(SummariesOf(evict.row)) > 0
                THEN [evict EXCEPT !.pc = "done", !.outcome = "nothing",
                                   !.inserted = @ \cup {evict.chat},
                                   !.repeated = @ \cup {SummaryKey(evict.row)}]
                ELSE [evict EXCEPT !.pc = "createSettings",
                                   !.inserted = @ \cup {evict.chat}]
    /\ UNCHANGED <<now, groups, settings, messages, limiterVars, sm, direct, hostVars, tldr, sched>>

\* insertSummary ran
EvictInsert ==
    /\ evict.pc = "insert"
    /\ summaries' = insertSummary(evict.row)
    /\ evict' = [evict EXCEPT !.pc = "createSettings", !.inserted = @ \cup {evict.chat},
                              !.repeated = IF Len(SummariesOf(evict.row)) > 0
                                           THEN @ \cup {SummaryKey(evict.row)} ELSE @]
    /\ UNCHANGED <<now, groups, settings, messages, limiterVars, sm, direct, hostVars, tldr, sched>>

\* createGroupSettings ran: the end of the loop body
EvictSettings ==
    /\ evict.pc = "createSettings"
    /\ settings' = createGroupSettings(evict.chat)
    /\ evict' = EvictNext([evict EXCEPT !.totalSummarized = @ + 1])
    /\ UNCHANGED <<now, groups, messages, summaries, limiterVars, sm, direct, hostVars, tldr, sched>>

\* a repository call of the loop body threw
EvictDbError ==
    /\ evict.pc \in {"getGroup", "insert", "createSettings"}
    /\ evict' = EvictCatch(evict)
    /\ UNCHANGED <<now, dbVars, limiterVars, sm, direct, hostVars, tldr, sched>>

\* cleanupOldMessages ran: the end of the run
EvictCleanup ==
    /\ evict.pc = "cleanup"
    /\ messages' = cleanupOldMessages(RetentionHours)
    /\ evict' = [evict EXCEPT !.pc = "done", !.totalDeleted = evict.found,
                              !.outcome = "cleaned"]
    /\ UNCHANGED <<now, groups, settings, summaries, limiterVars, sm, direct, hostVars, tldr, sched>>

\* getMessagesToCleanup or cleanupOldMessages threw: the run rethrows, to the catch
\* block of its timer callback
EvictOuterError ==
    /\ evict.pc \in {"getMessages", "cleanup"}
    /\ evict' = [evict EXCEPT !.pc = "done", !.outcome = "threw"]
    /\ host' = TickCaught(host)
    /\ UNCHANGED <<now, dbVars, limiterVars, sm, direct, orphan, lastSent, caller, parsed, caching, tldr,
                   sched>>

\* the steps of a run after its start
EvictRun ==
    \/ EvictMessages \/ EvictGroup \/ EvictSum \/ EvictReturn \/ EvictThrow
    \/ EvictInsert \/ EvictSettings \/ EvictDbError \/ EvictCleanup \/ EvictOuterError

Evict == EvictStart \/ EvictRun

\* time passes, by an hour
HoursPass ==
    /\ now < StartTime + MaxJumps * Hour
    /\ now' = now + Hour
    /\ UNCHANGED <<dbVars, envVars>>

-----------------------------------------------------------------------------
(* TLDRBot.checkAndRunScheduledSummaries and generateScheduledSummary *)

\* SELECT * FROM group_settings WHERE scheduled_enabled = true
RECURSIVE ScheduledOf(_)
ScheduledOf(cs) ==
    IF cs = {} THEN <<>>
    ELSE LET c == CHOOSE c \in cs : \A d \in cs : c <= d
         IN  (IF settings[c].exists /\ settings[c].scheduled_enabled
              THEN <<[telegram_chat_id |-> c, st |-> settings[c]]>> ELSE <<>>)
             \o ScheduledOf(cs \ {c})

getGroupsWithScheduledSummaries == ScheduledOf(Chats)

\* UPDATE group_settings SET last_scheduled_summary = CURRENT_TIMESTAMP
updateLastScheduledSummary(c) ==
    [settings EXCEPT ![c] = IF @.exists THEN [@ EXCEPT !.last_scheduled_summary = now] ELSE @]

\* getUTCHours, getUTCMinutes and getUTCDay of a time in seconds; the epoch was a
\* Thursday
UTCHours(t) == (t \div Hour) % 24
UTCMinutes(t) == (t \div 60) % 60
UTCDay(t) == ((t \div (24 * Hour)) + 4) % 7

\* the group check of the tick
SchedSkipsGroup(group) == ~group.exists \/ ~group.key \/ ~group.enabled

\* the group check of generateScheduledSummary
GenerateSkipsGroup(group) == ~group.exists \/ ~group.key

isTimeToRun(at, st) ==
    /\ UTCHours(at) = st.schedule_time[1]
    /\ UTCMinutes(at) >= st.schedule_time[2]
    /\ UTCMinutes(at) < st.schedule_time[2] + 5

\* a check of the weekday only, without the one of the last run
NotDueWeekdayOnly(at, st) == st.schedule_frequency = "weekly" /\ UTCDay(at) # 0

\* the tick goes on to the next group for one of: not Sunday for a weekly
\* schedule, a run in the last 23 hours
NotDue(at, st) ==
    \/ st.schedule_frequency = "weekly" /\ UTCDay(at) # 0
    \/ st.last_scheduled_summary # 0 /\ at - st.last_scheduled_summary < 23 * Hour

\* the filter of generateScheduledSummary
ScheduledFilter(msgs, st) ==
    SelectSeq(msgs, LAMBDA m :
        /\ ~(st.exclude_bot_messages /\ m.username = "bot")
        /\ ~(st.exclude_commands /\ StartsWithSlash(m.content))
        /\ ~(m.user_id # 0 /\ m.user_id \in st.excluded_user_ids))

\* the callbacks that run checkAndRunScheduledSummaries: the hourly interval and
\* the timeout of the initial check
Ticks == {"sched", "initial"}

\* the locals of a tick, and what it did: calledFor holds, for the chats it called
\* summarizeMessages for, the group row at that moment; skipped the chats whose
\* summary it left out for want of messages; sent the chats it sent a summary to
SchedIdle == [pc |-> "idle", queue |-> <<>>, at |-> 0, chat |-> 0,
              st |-> NoSettings, since |-> 0, text |-> NoText,
              calledFor |-> [c \in Chats |-> NoRow], skipped |-> {}, sent |-> {},
              outcome |-> "none"]

\* the loop of the tick goes on to the next group, or ends
SchedNext(r) ==
    LET r1 == [r EXCEPT !.since = 0, !.text = NoText]
    IN  IF Len(r.queue) = 0
        THEN [r1 EXCEPT !.pc = "done", !.chat = 0, !.st = NoSettings, !.outcome = "ran"]
        ELSE [r1 EXCEPT !.pc = "getGroup", !.chat = Head(r.queue).telegram_chat_id,
                        !.st = Head(r.queue).st, !.queue = Tail(r.queue)]

\* the timer of callback k fires, the tick before it of that callback having ended:
\* the interval is armed again, and the tick runs up to
\* `await this.db.getGroupsWithScheduledSummaries`
SchedStart(k) ==
    /\ host.alive
    /\ host.due[k] # 0 /\ now >= host.due[k]
    /\ sched[k].pc \in {"idle", "done"}
    /\ host' = [host EXCEPT !.due[k] = IF k = "sched" THEN now + Hour ELSE 0]
    /\ sched' = [sched EXCEPT ![k] = [SchedIdle EXCEPT !.pc = "getList"]]
    /\ sm' = [sm EXCEPT ![k] = SmIdle]
    /\ UNCHANGED <<now, dbVars, limiterVars, direct, orphan, lastSent, caller, parsed, caching, tldr, evict>>

\* the settings rows came back: the time is taken, and the loop starts
SchedList(k) ==
    /\ sched[k].pc = "getList"
    /\ sched' = [sched EXCEPT ![k] =
                    SchedNext([sched[k] EXCEPT !.queue = getGroupsWithScheduledSummaries,
                                               !.at = now])]
    /\ UNCHANGED <<now, dbVars, limiterVars, sm, direct, hostVars, tldr, evict>>

\* getGroup answered: the checks of the loop body, and generateScheduledSummary up
\* to its `await this.db.getGroup`
SchedGroup(k) ==
    /\ sched[k].pc = "getGroup"
    /\ LET group == getGroup(sched[k].chat)
       IN  IF SchedSkipsGroup(group) \/ ~isTimeToRun(sched[k].at, sched[k].st)
              \/ NotDue(sched[k].at, sched[k].st)
           THEN sched' = [sched EXCEPT ![k] = SchedNext(sched[k])]
           ELSE sched' = [sched EXCEPT ![k] = [sched[k] EXCEPT !.pc = "getGroup2"]]
    /\ UNCHANGED <<now, dbVars, limiterVars, sm, direct, hostVars, tldr, evict>>

\* generateScheduledSummary: getGroup answered, up to
\* `await this.db.getMessagesSinceTimestamp`
SchedGroup2(k) ==
    /\ sched[k].pc = "getGroup2"
    /\ LET group == getGroup(sched[k].chat)
           hoursAgo == IF sched[k].st.schedule_frequency = "weekly" THEN 168 ELSE 24
       IN  IF GenerateSkipsGroup(group)
           THEN sched' = [sched EXCEPT ![k] = [sched[k] EXCEPT !.pc = "updateLast"]]
           ELSE sched' = [sched EXCEPT ![k] = [sched[k] EXCEPT
                                !.pc = "read", !.since = now - hoursAgo * Hour]]
    /\ UNCHANGED <<now, dbVars, limiterVars, sm, direct, hostVars, tldr, evict>>

\* the messages came back: the filter, and summarizeMessages up to its first await
SchedRead(k) ==
    /\ sched[k].pc = "read"
    /\ LET msgs == getMessagesSinceTimestamp(sched[k].chat, sched[k].since, 1000)
           filteredMessages == ScheduledFilter(msgs, sched[k].st)
           group == groups[sched[k].chat]     \* the row as it is now, for calledFor
       IN  IF Len(msgs) = 0 \/ Len(filteredMessages) = 0
           THEN /\ sched' = [sched EXCEPT ![k] = [sched[k] EXCEPT
                                    !.pc = "updateLast", !.skipped = @ \cup {sched[k].chat}]]
                /\ UNCHANGED sm
           ELSE /\ sched' = [sched EXCEPT ![k] = [sched[k] EXCEPT
                                    !.pc = "summarizing", !.calledFor[sched[k].chat] = group]]
                /\ sm' = [sm EXCEPT ![k] = summarizeMessages(filteredMessages)]
    /\ UNCHANGED <<now, dbVars, limiterVars, direct, hostVars, tldr, evict>>

SchedSum(k) ==
    /\ sched[k].pc = "summarizing"
    /\ SumStep(k, BotOutcomes)
    /\ UNCHANGED <<botVars, direct>>

\* the summary came back: up to `await this.bot.api.sendMessage`
SchedReturn(k) ==
    /\ sched[k].pc = "summarizing"
    /\ SumReturned(k)
    /\ sched' = [sched EXCEPT ![k] = [sched[k] EXCEPT !.pc = "send",
                                                      !.text = sm[k].result]]
    /\ sm' = [sm EXCEPT ![k] = SmIdle]
    /\ UNCHANGED <<now, dbVars, limiterVars, direct, hostVars, tldr, evict>>

\* summarizeMessages threw: the catch block of generateScheduledSummary
SchedThrow(k) ==
    /\ sched[k].pc = "summarizing"
    /\ SumThrew(k)
    /\ sched' = [sched EXCEPT ![k] = [sched[k] EXCEPT !.pc = "updateLast"]]
    /\ sm' = [sm EXCEPT ![k] = SmIdle]
    /\ UNCHANGED <<now, dbVars, limiterVars, direct, hostVars, tldr, evict>>

\* the summary was sent
SchedSend(k) ==
    /\ sched[k].pc = "send"
    /\ sched' = [sched EXCEPT ![k] = [sched[k] EXCEPT !.pc = "updateLast", !.text = NoText,
                                                      !.sent = @ \cup {sched[k].chat}]]
    /\ lastSent' = [lastSent EXCEPT ![sched[k].chat] = now]
    /\ UNCHANGED <<now, dbVars, limiterVars, sm, direct, tldr, evict, host, orphan, caller, parsed, caching>>

\* updateLastScheduledSummary ran: the end of the loop body
SchedUpdate(k) ==
    /\ sched[k].pc = "updateLast"
    /\ settings' = updateLastScheduledSummary(sched[k].chat)
    /\ sched' = [sched EXCEPT ![k] = SchedNext(sched[k])]
    /\ UNCHANGED <<now, groups, messages, summaries, limiterVars, sm, direct, hostVars, tldr, evict>>

\* a tick without the try blocks of the loop body and of generateScheduledSummary:
\* a call that threw ends the tick
SchedErrorEndsTick(k) ==
    /\ sched[k].pc \in {"getList", "getGroup", "getGroup2", "read", "send", "updateLast"}
    /\ sched' = [sched EXCEPT ![k] = [sched[k] EXCEPT !.pc = "done", !.outcome = "threw"]]
    /\ host' = TickCaught(host)
    /\ UNCHANGED <<now, dbVars, limiterVars, sm, direct, orphan, lastSent, caller, parsed, caching, tldr,
                   evict>>

\* a call threw: in generateScheduledSummary its catch block logs it and the tick
\* goes on to updateLastScheduledSummary; in the loop body the tick goes on to the
\* next group; getGroupsWithScheduledSummaries rethrows, to the catch block of the
\* timer callback
SchedError(k) ==
    /\ sched[k].pc \in {"getList", "getGroup", "getGroup2", "read", "send", "updateLast"}
    /\ sched' = [sched EXCEPT ![k] =
                    IF sched[k].pc \in {"getGroup2", "read", "send"}
                    THEN [sched[k] EXCEPT !.pc = "updateLast", !.text = NoText]
                    ELSE IF sched[k].pc = "getList"
                    THEN [sched[k] EXCEPT !.pc = "done", !.outcome = "threw"]
                    ELSE SchedNext(sched[k])]
    /\ host' = IF sched[k].pc = "getList" THEN TickCaught(host) ELSE host
    /\ UNCHANGED <<now, dbVars, limiterVars, sm, direct, orphan, lastSent, caller, parsed, caching, tldr,
                   evict>>

\* the steps of a tick after its start
SchedRun(k) ==
    \/ SchedList(k) \/ SchedGroup(k) \/ SchedGroup2(k) \/ SchedRead(k) \/ SchedSum(k)
    \/ SchedReturn(k) \/ SchedThrow(k) \/ SchedSend(k) \/ SchedUpdate(k) \/ SchedError(k)

Sched(k) == SchedStart(k) \/ SchedRun(k)

-----------------------------------------------------------------------------
(* The summary pruning of TLDRBot.start: cleanupOldSummaries(14) every 24 hours *)

SummaryRetentionDays == 14

\* DELETE FROM summaries WHERE created_at < NOW() - (INTERVAL '1 day' * $1)
cleanupOldSummaries(daysAgo) ==
    SelectSeq(summaries, LAMBDA r : ~(r.created_at < now - daysAgo * 24 * Hour))

\* the timer fires: the callback up to `await this.db.cleanupOldSummaries`
PruneStart ==
    /\ host.alive /\ ~host.cleared
    /\ host.prune # "query"
    /\ host' = [host EXCEPT !.prune = "query"]
    /\ UNCHANGED <<now, dbVars, limiterVars, sm, direct, orphan, lastSent, caller, parsed, caching, tldr,
                   evict, sched>>

\* the delete ran
PruneDone ==
    /\ host.prune = "query"
    /\ summaries' = cleanupOldSummaries(SummaryRetentionDays)
    /\ host' = [host EXCEPT !.prune = "done"]
    /\ UNCHANGED <<now, groups, settings, messages, limiterVars, sm, direct, orphan,
                   lastSent, caller, parsed, caching, tldr, evict, sched>>

\* the delete threw: the catch block of the callback
PruneError ==
    /\ host.prune = "query"
    /\ host' = TickCaught([host EXCEPT !.prune = "threw"])
    /\ UNCHANGED <<now, dbVars, limiterVars, sm, direct, orphan, lastSent, caller, parsed, caching, tldr,
                   evict, sched>>

Prune == PruneStart \/ PruneDone \/ PruneError

-----------------------------------------------------------------------------
(* TLDRBot.checkAndCleanupOrphanedGroups *)

\* what getChat or getChatMember of the Bot API can answer for the bot: its member
\* status, or a failure with an error_code (0 stands for a failure without one:
\* a network error, a timeout)
MemberStatuses == {"member", "administrator", "restricted", "left", "kicked"}
ErrorCodes == {400, 403, 429, 0}

\* deleteGroup, with ON DELETE CASCADE on messages
deleteGroup(c) == [groups EXCEPT ![c] = NoRow]
deleteGroupMessages(c) == [messages EXCEPT ![c] = <<>>]

\* SELECT telegram_chat_id FROM groups WHERE gemini_api_key_encrypted IS NOT NULL
RECURSIVE ConfiguredOf(_)
ConfiguredOf(cs) ==
    IF cs = {} THEN <<>>
    ELSE LET c == CHOOSE c \in cs : \A d \in cs : c <= d
         IN  (IF groups[c].exists /\ groups[c].key THEN <<c>> ELSE <<>>)
             \o ConfiguredOf(cs \ {c})

\* a check that takes every failure of a lookup for the bot being gone
NotInGroupAny(code) == TRUE

\* error.error_code === 400 || error.error_code === 403
NotInGroup(code) == code = 400 \/ code = 403

\* botMember.status === 'left' || botMember.status === 'kicked'
Gone(status) == status = "left" \/ status = "kicked"

\* the locals of a check, and what it did: signal holds what the lookups for a
\* chat answered (the member status, or the lookup that failed and its code), via
\* the place of the deleteGroup call at hand, deleted the chats whose group the
\* check deleted
OrphanIdle == [pc |-> "idle", queue |-> <<>>, chat |-> 0, via |-> "none",
               signal |-> [c \in Chats |-> <<"none", 0>>], deleted |-> {},
               cleanedCount |-> 0, outcome |-> "none"]

\* the loop goes on to the next group, or ends
OrphanNext(o) ==
    IF Len(o.queue) = 0
    THEN [o EXCEPT !.pc = "done", !.chat = 0, !.via = "none", !.outcome = "checked"]
    ELSE [o EXCEPT !.pc = "getChat", !.chat = Head(o.queue), !.queue = Tail(o.queue),
                   !.via = "none"]

\* a timer fires, the daily interval or the timeout of the initial check, which
\* fires once: the check up to its `await this.db.query`
OrphanStart ==
    /\ host.alive
    /\ orphan.pc \in {"idle", "done"}
    /\ \E initial \in {b \in BOOLEAN :
                          IF b THEN host.orphanInitial # 0 /\ now >= host.orphanInitial
                               ELSE ~host.cleared} :
           host' = IF initial THEN [host EXCEPT !.orphanInitial = 0] ELSE host
    /\ orphan' = [OrphanIdle EXCEPT !.pc = "query"]
    /\ UNCHANGED <<now, dbVars, limiterVars, sm, direct, lastSent, caller, parsed, caching, tldr,
                   evict, sched>>

\* the configured groups came back: up to `await this.bot.api.getMe`
OrphanQuery ==
    /\ orphan.pc = "query"
    /\ orphan' = [orphan EXCEPT !.pc = "getMe", !.queue = ConfiguredOf(Chats)]
    /\ UNCHANGED <<now, dbVars, limiterVars, sm, direct, host, lastSent, caller, parsed, caching, tldr,
                   evict, sched>>

\* getMe answered: the loop starts
OrphanMe ==
    /\ orphan.pc = "getMe"
    /\ orphan' = OrphanNext(orphan)
    /\ UNCHANGED <<now, dbVars, limiterVars, sm, direct, host, lastSent, caller, parsed, caching, tldr,
                   evict, sched>>

\* getChat answered, or failed with `code`: the outer catch block of the loop body
OrphanChat ==
    /\ orphan.pc = "getChat"
    /\ \/ orphan' = [orphan EXCEPT !.pc = "getChatMember"]
       \/ \E code \in ErrorCodes :
            LET seen == [orphan EXCEPT !.signal[orphan.chat] = <<"getChat", code>>]
            IN  orphan' = IF NotInGroup(code)
                          THEN [seen EXCEPT !.pc = "delete", !.via = "chat"]
                          ELSE OrphanNext(seen)
    /\ UNCHANGED <<now, dbVars, limiterVars, sm, direct, host, lastSent, caller, parsed, caching, tldr,
                   evict, sched>>

\* getChatMember answered with the status of the bot, or failed with `code`: the
\* inner catch block
OrphanMember ==
    /\ orphan.pc = "getChatMember"
    /\ \/ \E status \in MemberStatuses :
            LET seen == [orphan EXCEPT !.signal[orphan.chat] = <<status, 0>>]
            IN  orphan' = IF Gone(status)
                          THEN [seen EXCEPT !.pc = "delete", !.via = "status"]
                          ELSE OrphanNext(seen)
       \/ \E code \in ErrorCodes :
            LET seen == [orphan EXCEPT !.signal[orphan.chat] = <<"getChatMember", code>>]
            IN  orphan' = IF NotInGroup(code)
                          THEN [seen EXCEPT !.pc = "delete", !.via = "member"]
                          ELSE OrphanNext(seen)
    /\ UNCHANGED <<now, dbVars, limiterVars, sm, direct, host, lastSent, caller, parsed, caching, tldr,
                   evict, sched>>

\* deleteGroup ran
OrphanDelete ==
    /\ orphan.pc = "delete"
    /\ groups' = deleteGroup(orphan.chat)
    /\ messages' = deleteGroupMessages(orphan.chat)
    /\ orphan' = OrphanNext([orphan EXCEPT !.deleted = @ \cup {orphan.chat},
                                           !.cleanedCount = @ + 1])
    /\ UNCHANGED <<now, settings, summaries, limiterVars, sm, direct, host, lastSent,
                   caller, parsed, caching, tldr, evict, sched>>

\* deleteGroup threw, an error without an error_code: from the try blocks it is
\* caught by the catch block around it, which deletes nothing for it, and the loop
\* goes on; from the outer catch block it ends the loop and the check rethrows
OrphanDeleteError ==
    /\ orphan.pc = "delete"
    /\ orphan' = IF orphan.via = "chat"
                 THEN [orphan EXCEPT !.pc = "done", !.outcome = "threw"]
                 ELSE OrphanNext(orphan)
    /\ host' = IF orphan.via = "chat" THEN TickCaught(host) ELSE host
    /\ UNCHANGED <<now, dbVars, limiterVars, sm, direct, lastSent, caller, parsed, caching, tldr,
                   evict, sched>>

\* the query or getMe threw: the check rethrows, to the catch block of its timer
\* callback
OrphanError ==
    /\ orphan.pc \in {"query", "getMe"}
    /\ orphan' = [orphan EXCEPT !.pc = "done", !.outcome = "threw"]
    /\ host' = TickCaught(host)
    /\ UNCHANGED <<now, dbVars, limiterVars, sm, direct, lastSent, caller, parsed, caching, tldr,
                   evict, sched>>

\* the steps of a check after its start
OrphanRun ==
    \/ OrphanQuery \/ OrphanMe \/ OrphanChat \/ OrphanMember \/ OrphanDelete
    \/ OrphanDeleteError \/ OrphanError

Orphan == OrphanStart \/ OrphanRun

-----------------------------------------------------------------------------
(* A direct caller of summarizeMessages *)

\* the input lengths: around the threshold and at every chunk boundary
InputLens ==
    {0, 1, 2, CHUNK_THRESHOLD, CHUNK_THRESHOLD + 1}
    \cup {k * CHUNK_SIZE : k \in 1..MaxChunks}
    \cup {(k - 1) * CHUNK_SIZE + 1 : k \in 1..MaxChunks}
    \cup {n \in {2500} : n <= MaxChunks * CHUNK_SIZE}

\* an input of n messages: message k is the k-th of the conversation
InputOf(n) == [k \in 1..n |-> k]

DirectIdle == [pc |-> "idle", n |-> 0, text |-> NoText, error |-> {}]

DirectCall ==
    /\ direct.pc = "idle"
    /\ \E n \in InputLens :
         /\ direct' = [direct EXCEPT !.pc = "waiting", !.n = n]
         /\ sm' = [sm EXCEPT !["direct"] = summarizeMessages(InputOf(n))]
    /\ UNCHANGED botVars

DirectSum ==
    /\ direct.pc = "waiting"
    /\ SumStep("direct", Outcomes)
    /\ UNCHANGED <<direct, botVars>>

DirectReturn ==
    /\ direct.pc = "waiting"
    /\ SumReturned("direct")
    /\ direct' = [direct EXCEPT !.pc = "returned", !.text = sm["direct"].result]
    /\ UNCHANGED <<sm, botVars>>

DirectThrow ==
    /\ direct.pc = "waiting"
    /\ SumThrew("direct")
    /\ direct' = [direct EXCEPT !.pc = "threw", !.error = sm["direct"].error]
    /\ UNCHANGED <<sm, botVars>>

-----------------------------------------------------------------------------
(* The state after construction, on an empty database *)

\* the process before start(): no timer of the scheduled summaries is armed (0
\* stands for not armed), no timeout of the initial orphan check either, no
\* pruning under way, and stop() not called: the intervals kept in the fields
\* of the bot are not cleared
HostIdle == [alive |-> TRUE, due |-> [k \in Ticks |-> 0], prune |-> "idle",
             orphanInitial |-> 0, cleared |-> FALSE, stop |-> "idle"]

InitBot ==
    /\ now = StartTime
    /\ groups = [c \in Chats |-> NoRow]
    /\ settings = [c \in Chats |-> NoSettings]
    /\ messages = [c \in Chats |-> <<>>]
    /\ summaries = <<>>
    /\ rateLimitMap = [p \in Pairs |-> 0]
    /\ accepted = [p \in Pairs |-> 0]
    /\ lastRequest = [p \in Pairs |-> 0]
    /\ sm = [t \in Tasks |-> SmIdle]
    /\ direct = DirectIdle
    /\ tldr = [h \in Handlers |-> TldrIdle]
    /\ evict = EvictIdle
    /\ sched = [k \in Ticks |-> SchedIdle]
    /\ orphan = OrphanIdle
    /\ host = HostIdle
    /\ lastSent = [c \in Chats |-> 0]
    /\ caller = "none"
    /\ parsed = ParseIdle
    /\ caching = CacheIdle

-----------------------------------------------------------------------------
(* SpecTldr: /tldr in one chat, with the group commands and a filter button, on
   each of a few caches *)

\* the chat the commands are sent in: the first

TldrChat == CHOOSE c \in Chats : \A d \in Chats : c <= d

Text == <<"h", "i">>
Command == <<"/", "t">>

\* the cache of the chat at the start: empty, an old text, a fresh command, and an
\* old text followed by a fresh command and a fresh text
TldrCaches ==
    LET row(id, content, ts) == MessageRow(TldrChat, id, 1, "ann", content, ts)
    IN  {<<>>,
         <<row(1, Text, StartTime - 2 * Hour)>>,
         <<row(1, Command, StartTime)>>,
         <<row(1, Text, StartTime - 2 * Hour), row(2, Command, StartTime),
           row(3, Text, StartTime)>>}

\* the state at the start: the group row is one of gs, the cache one of caches
InitWith(gs, caches) ==
    /\ now = StartTime
    /\ \E g \in gs, cache \in caches :
         /\ groups = [c \in Chats |-> IF c = TldrChat THEN g ELSE NoRow]
         /\ messages = [c \in Chats |-> IF c = TldrChat /\ g.exists THEN cache ELSE <<>>]
    /\ settings = [c \in Chats |-> NoSettings]
    /\ summaries = <<>>
    /\ rateLimitMap = [p \in Pairs |-> 0]
    /\ accepted = [p \in Pairs |-> 0]
    /\ lastRequest = [p \in Pairs |-> 0]
    /\ sm = [t \in Tasks |-> SmIdle]
    /\ direct = DirectIdle
    /\ tldr = [h \in Handlers |-> TldrIdle]
    /\ evict = EvictIdle
    /\ sched = [k \in Ticks |-> SchedIdle]
    /\ orphan = OrphanIdle
    /\ host = HostIdle
    /\ lastSent = [c \in Chats |-> 0]
    /\ caller = "none"
    /\ parsed = ParseIdle
    /\ caching = CacheIdle

\* the steps of a handler after its start
TldrRun(h) ==
    \/ TldrGroup(h) \/ TldrGroup2(h) \/ TldrRead(h) \/ TldrSettings(h) \/ TldrSum(h)
    \/ TldrReturn(h) \/ TldrThrow(h) \/ TldrDbError(h)

Tldr(h, users) == TldrStart(h, TldrChat, users) \/ TldrRun(h)

InitTldr == InitWith(GroupRows, TldrCaches)

NextTldr ==
    \/ Tldr("h1", {1})
    \/ GroupAdmin(TldrChat)
    \/ handleFilterCmd(TldrChat)
    \/ SecondsPass

SpecTldr == InitTldr /\ [][NextTldr]_vars

-----------------------------------------------------------------------------
(* SpecLimit: two /tldr handlers in flight at once, for the same user and chat,
   in a chat whose configuration does not change *)

InitLimit == InitWith({GroupRow(TRUE, TRUE), GroupRow(TRUE, FALSE)},
                      {c \in TldrCaches : Len(c) # 1})

NextLimit ==
    \/ \E h \in Handlers : Tldr(h, {1})
    \/ SecondsPass

SpecLimit == InitLimit /\ [][NextLimit]_vars

\* SpecPairs: the requests of two callers, one after the other
NextPairs ==
    \/ Tldr("h1", Users)
    \/ SecondsPass

SpecPairs == InitLimit /\ [][NextPairs]_vars

-----------------------------------------------------------------------------
(* SpecEvict: eviction runs over two chats, with the group commands in the first
   chat and the clock going on by hours *)

\* rows of chat c that are stale at the start, and one that is stale an hour later
OldText(c, id) == MessageRow(c, id, 1, "ann", Text, StartTime - (RetentionHours + 2) * Hour)
OldBlank(c, id) == MessageRow(c, id, 1, "ann", <<" ">>, StartTime - (RetentionHours + 1) * Hour)
SoonOld(c, id) == MessageRow(c, id, 1, "ann", Text, StartTime - RetentionHours * Hour)

\* a cache of one message more than the multi-chunk threshold, all stale
BulkCache(c) == [k \in 1..(CHUNK_THRESHOLD + 1) |-> OldText(c, k)]

\* the caches of the first chat and of the second at the start
EvictCaches ==
    {<<OldBlank(TldrChat, 1)>>,
     <<OldText(TldrChat, 1), OldBlank(TldrChat, 2), SoonOld(TldrChat, 3)>>,
     BulkCache(TldrChat)}

OtherCaches == {<<>>, <<OldText(2, 1)>>}

InitEvict ==
    /\ now = StartTime
    /\ \E g \in {GroupRow(TRUE, TRUE), GroupRow(TRUE, FALSE), GroupRow(FALSE, TRUE)},
          cache \in EvictCaches, other \in OtherCaches :
         /\ Len(cache) > CHUNK_THRESHOLD => other = <<>>
         /\ groups = [c \in Chats |-> IF c = TldrChat THEN g ELSE GroupRow(TRUE, TRUE)]
         /\ messages = [c \in Chats |-> IF c = TldrChat THEN cache ELSE other]
    /\ settings = [c \in Chats |-> NoSettings]
    /\ summaries = <<>>
    /\ rateLimitMap = [p \in Pairs |-> 0]
    /\ accepted = [p \in Pairs |-> 0]
    /\ lastRequest = [p \in Pairs |-> 0]
    /\ sm = [t \in Tasks |-> SmIdle]
    /\ direct = DirectIdle
    /\ tldr = [h \in Handlers |-> TldrIdle]
    /\ evict = EvictIdle
    /\ sched = [k \in Ticks |-> SchedIdle]
    /\ orphan = OrphanIdle
    /\ host = HostIdle
    /\ lastSent = [c \in Chats |-> 0]
    /\ caller = "none"
    /\ parsed = ParseIdle
    /\ caching = CacheIdle

NextEvict ==
    \/ Evict
    \/ SetupApiKey(TldrChat) \/ handleEnable(TldrChat) \/ handleDisable(TldrChat)
    \/ HoursPass

SpecEvict == InitEvict /\ [][NextEvict]_vars

-----------------------------------------------------------------------------
(* Spec: a /tldr handler, the eviction run and the scheduled tick one after the
   other, in any order and any number of times, in one configured chat with a
   daily schedule at 00:00 *)

\* the caches at the start: empty; a stale blank message and a fresh command; a
\* stale text, a fresh command and a fresh text
SpecCaches ==
    {<<>>,
     <<OldBlank(TldrChat, 1), MessageRow(TldrChat, 2, 1, "ann", Command, StartTime)>>,
     <<OldText(TldrChat, 1), MessageRow(TldrChat, 2, 1, "ann", Command, StartTime),
       MessageRow(TldrChat, 3, 1, "ann", Text, StartTime)>>}

Init ==
    /\ now = StartTime
    /\ \E cache \in SpecCaches, cmd \in BOOLEAN :
         /\ messages = [c \in Chats |-> IF c = TldrChat THEN cache ELSE <<>>]
         /\ settings = [c \in Chats |->
                IF c = TldrChat
                THEN SettingsRow(FALSE, cmd, {}, TRUE, "daily", <<0, 0>>, 0)
                ELSE NoSettings]
    /\ groups = [c \in Chats |-> IF c = TldrChat THEN GroupRow(TRUE, TRUE) ELSE NoRow]
    /\ summaries = <<>>
    /\ rateLimitMap = [p \in Pairs |-> 0]
    /\ accepted = [p \in Pairs |-> 0]
    /\ lastRequest = [p \in Pairs |-> 0]
    /\ sm = [t \in Tasks |-> SmIdle]
    /\ direct = DirectIdle
    /\ tldr = [h \in Handlers |-> TldrIdle]
    /\ evict = EvictIdle
    /\ sched = [k \in Ticks |-> SchedIdle]
    /\ orphan = OrphanIdle
    /\ host = [HostIdle EXCEPT !.due["sched"] = StartTime]
    /\ lastSent = [c \in Chats |-> 0]
    /\ caller = "none"
    /\ parsed = ParseIdle
    /\ caching = CacheIdle

\* the handlers and jobs between their start and their end
InFlight ==
    {h \in Handlers : tldr[h].pc \notin {"idle", "done"}}
    \cup {t \in {"evict"} : evict.pc \notin {"idle", "done"}}
    \cup {t \in Ticks : sched[t].pc \notin {"idle", "done"}}

\* a handler or job starts when the one before it has ended
Start ==
    /\ InFlight = {}
    /\ TldrStart("h1", TldrChat, {1}) \/ EvictStart \/ SchedStart("sched")

Next ==
    \/ Start
    \/ TldrRun("h1")
    \/ EvictRun
    \/ SchedRun("sched")
    \/ WindowPasses

Spec == Init /\ [][Next]_vars

-----------------------------------------------------------------------------
(* SpecHost: the four periodic concerns of start(), two at a time side by side:
   eviction, summary pruning, the hourly scheduled tick and the orphan check, each
   able to fail,
   over one configured chat with a daily schedule at 00:00, a stale message, a
   fresh one and a summary older than the retention *)

OldSummary ==
    [SummaryRow(TldrChat, Text, 1, StartTime - 16 * 24 * Hour, StartTime - 15 * 24 * Hour)
        EXCEPT !.created_at = StartTime - (SummaryRetentionDays + 1) * 24 * Hour]

InitHost ==
    /\ now = StartTime
    /\ groups = [c \in Chats |-> IF c = TldrChat THEN GroupRow(TRUE, TRUE) ELSE NoRow]
    /\ messages = [c \in Chats |->
           IF c = TldrChat
           THEN <<OldText(c, 1), MessageRow(c, 2, 1, "ann", Text, StartTime)>> ELSE <<>>]
    /\ settings = [c \in Chats |->
           IF c = TldrChat
           THEN SettingsRow(FALSE, FALSE, {}, TRUE, "daily", <<0, 0>>, 0)
           ELSE NoSettings]
    /\ summaries = <<OldSummary>>
    /\ rateLimitMap = [p \in Pairs |-> 0]
    /\ accepted = [p \in Pairs |-> 0]
    /\ lastRequest = [p \in Pairs |-> 0]
    /\ sm = [t \in Tasks |-> SmIdle]
    /\ direct = DirectIdle
    /\ tldr = [h \in Handlers |-> TldrIdle]
    /\ evict = EvictIdle
    /\ sched = [k \in Ticks |-> SchedIdle]
    /\ orphan = OrphanIdle
    /\ host = [HostIdle EXCEPT !.due["sched"] = StartTime]
    /\ lastSent = [c \in Chats |-> 0]
    /\ caller = "none"
    /\ parsed = ParseIdle
    /\ caching = CacheIdle

\* the concerns in the middle of a tick
Ticking ==
    {c \in {"eviction"} : evict.pc \notin {"idle", "done"}}
    \cup {c \in {"pruning"} : host.prune = "query"}
    \cup {c \in {"scheduled"} : sched["sched"].pc \notin {"idle", "done"}}
    \cup {c \in {"orphans"} : orphan.pc \notin {"idle", "done"}}

\* a timer fires while at most one other concern is in the middle of a tick
StartHost ==
    /\ Cardinality(Ticking) <= 1
    /\ EvictStart \/ PruneStart \/ SchedStart("sched") \/ OrphanStart

NextHost ==
    \/ StartHost
    \/ EvictRun
    \/ PruneDone \/ PruneError
    \/ SchedRun("sched")
    \/ OrphanRun

SpecHost == InitHost /\ [][NextHost]_vars

-----------------------------------------------------------------------------
(* stop(), called on a bot that start() has set going *)

\* stop() up to `await this.bot.stop()`: the four intervals kept in the fields
\* of the bot are cleared, the eviction, the pruning of the summaries, the
\* hourly check of the scheduled summaries and the daily orphan check
StopClears ==
    /\ host.alive /\ host.stop = "idle"
    /\ host' = [host EXCEPT !.stop = "awaiting", !.cleared = TRUE, !.due["sched"] = 0]
    /\ UNCHANGED <<now, dbVars, limiterVars, sm, direct, orphan, lastSent, caller, parsed,
                   caching, tldr, evict, sched>>

\* the bot stopped: stop() returns
StopReturns ==
    /\ host.stop = "awaiting"
    /\ host' = [host EXCEPT !.stop = "returned"]
    /\ UNCHANGED <<now, dbVars, limiterVars, sm, direct, orphan, lastSent, caller, parsed,
                   caching, tldr, evict, sched>>

\* `this.bot.stop()` rejected: so does stop()
StopThrows ==
    /\ host.stop = "awaiting"
    /\ host' = [host EXCEPT !.stop = "threw"]
    /\ UNCHANGED <<now, dbVars, limiterVars, sm, direct, orphan, lastSent, caller, parsed,
                   caching, tldr, evict, sched>>

stop == StopClears \/ StopReturns \/ StopThrows

\* start() has just armed its timers: the hourly check of the scheduled
\* summaries, its initial check after 5 minutes, the initial orphan check after
\* 10 minutes, and the intervals of the eviction, the pruning and the orphans;
\* the one group has its daily summary scheduled for 00:05
InitStop ==
    /\ now = StartTime
    /\ groups = [c \in Chats |-> IF c = TldrChat THEN GroupRow(TRUE, TRUE) ELSE NoRow]
    /\ messages = [c \in Chats |->
           IF c = TldrChat
           THEN <<OldText(c, 1), MessageRow(c, 2, 1, "ann", Text, StartTime)>> ELSE <<>>]
    /\ settings = [c \in Chats |->
           IF c = TldrChat
           THEN SettingsRow(FALSE, FALSE, {}, TRUE, "daily", <<0, 5>>, 0)
           ELSE NoSettings]
    /\ summaries = <<OldSummary>>
    /\ rateLimitMap = [p \in Pairs |-> 0]
    /\ accepted = [p \in Pairs |-> 0]
    /\ lastRequest = [p \in Pairs |-> 0]
    /\ sm = [t \in Tasks |-> SmIdle]
    /\ direct = DirectIdle
    /\ tldr = [h \in Handlers |-> TldrIdle]
    /\ evict = EvictIdle
    /\ sched = [k \in Ticks |-> SchedIdle]
    /\ orphan = OrphanIdle
    /\ host = [HostIdle EXCEPT !.due = [k \in Ticks |->
                                          IF k = "sched" THEN StartTime + Hour
                                                         ELSE StartTime + 5 * 60],
                               !.orphanInitial = StartTime + 10 * 60]
    /\ lastSent = [c \in Chats |-> 0]
    /\ caller = "none"
    /\ parsed = ParseIdle
    /\ caching = CacheIdle

\* the times the armed timers and timeouts are due at
DueTimes == {host.due[k] : k \in {t \in Ticks : host.due[t] # 0}}
            \cup {t \in {host.orphanInitial} : t # 0}

\* time passes, up to the next timer or timeout, in the first hour after start()
StopTimePasses ==
    /\ DueTimes # {}
    /\ \A t \in DueTimes : t > now
    /\ \E t \in DueTimes :
           /\ \A u \in DueTimes : t <= u
           /\ t <= StartTime + Hour
           /\ now' = t
    /\ UNCHANGED <<dbVars, envVars>>

\* the callbacks in the middle of a run
Running ==
    Ticking \cup {c \in {"initial"} : sched["initial"].pc \notin {"idle", "done"}}

\* a timer or a timeout fires while no callback is in the middle of a run; the
\* eviction, whose interval is twelve hours, is not due in the hour
StartOne ==
    /\ Running = {}
    /\ \/ PruneStart \/ OrphanStart
       \/ SchedStart("sched") \/ SchedStart("initial")

NextStop ==
    \/ StartOne
    \/ PruneDone \/ PruneError
    \/ SchedRun("sched") \/ SchedRun("initial")
    \/ OrphanRun
    \/ stop
    \/ StopTimePasses

SpecStop == InitStop /\ [][NextStop]_vars

-----------------------------------------------------------------------------
(* SpecOrphan: orphan checks over two configured chats with cached messages, with
   the group commands in the first chat *)

InitOrphan ==
    /\ now = StartTime
    /\ groups = [c \in Chats |-> GroupRow(TRUE, TRUE)]
    /\ messages = [c \in Chats |-> <<MessageRow(c, 1, 1, "ann", Text, StartTime)>>]
    /\ settings = [c \in Chats |-> NoSettings]
    /\ summaries = <<>>
    /\ rateLimitMap = [p \in Pairs |-> 0]
    /\ accepted = [p \in Pairs |-> 0]
    /\ lastRequest = [p \in Pairs |-> 0]
    /\ sm = [t \in Tasks |-> SmIdle]
    /\ direct = DirectIdle
    /\ tldr = [h \in Handlers |-> TldrIdle]
    /\ evict = EvictIdle
    /\ sched = [k \in Ticks |-> SchedIdle]
    /\ orphan = OrphanIdle
    /\ host = HostIdle
    /\ lastSent = [c \in Chats |-> 0]
    /\ caller = "none"
    /\ parsed = ParseIdle
    /\ caching = CacheIdle

NextOrphan ==
    \/ Orphan
    \/ GroupAdmin(TldrChat)

SpecOrphan == InitOrphan /\ [][NextOrphan]_vars

-----------------------------------------------------------------------------
(* SpecSched: the hourly tick and the deferred initial check of one process, from
   its start on, with the clock going from one timer to the next, in one
   configured chat with a daily schedule at 09:00 that gets a message on the
   second day *)

MaxHours == 34

\* 09:00 of the day of the start
Window0 == StartTime + 9 * Hour

\* the process starts 5 or 2 minutes before 09:00 (the initial check falls into
\* the window), 60 or 56 minutes before (the hourly tick does), or 90 minutes
\* before (neither does)
ProcessStarts ==
    {Window0 - 5 * 60, Window0 - 2 * 60, Window0 - Hour, Window0 - Hour + 4 * 60,
     Window0 - 90 * 60}

\* the last scheduled summary an earlier process left: none, one 23 hours before
\* 09:00, one 22 hours and 55 minutes before
LastRuns == {0, Window0 - 23 * Hour, Window0 - 23 * Hour + 5 * 60}

InitSched ==
    /\ \E started \in ProcessStarts :
         /\ now = started
         /\ host = [HostIdle EXCEPT !.due = [k \in Ticks |->
                        IF k = "sched" THEN started + Hour ELSE started + 5 * 60]]
    /\ \E last \in LastRuns :
         /\ settings = [c \in Chats |->
                IF c = TldrChat
                THEN SettingsRow(FALSE, FALSE, {}, TRUE, "daily", <<9, 0>>, last)
                ELSE NoSettings]
         /\ lastSent = [c \in Chats |-> IF c = TldrChat THEN last ELSE 0]
    /\ groups = [c \in Chats |-> IF c = TldrChat THEN GroupRow(TRUE, TRUE) ELSE NoRow]
    /\ messages = [c \in Chats |->
           IF c = TldrChat
           THEN <<MessageRow(c, 1, 1, "ann", Text, Window0 - 2 * Hour)>> ELSE <<>>]
    /\ summaries = <<>>
    /\ rateLimitMap = [p \in Pairs |-> 0]
    /\ accepted = [p \in Pairs |-> 0]
    /\ lastRequest = [p \in Pairs |-> 0]
    /\ sm = [t \in Tasks |-> SmIdle]
    /\ direct = DirectIdle
    /\ tldr = [h \in Handlers |-> TldrIdle]
    /\ evict = EvictIdle
    /\ sched = [k \in Ticks |-> SchedIdle]
    /\ orphan = OrphanIdle
    /\ caller = "none"
    /\ parsed = ParseIdle
    /\ caching = CacheIdle

\* the timers that are armed, and the earliest time one of them is due
Armed == {k \in Ticks : host.due[k] # 0}
NextDue == CHOOSE t \in {host.due[k] : k \in Armed} : \A k \in Armed : t <= host.due[k]

\* time passes, up to the next timer: every timer that was due has fired, and
\* the list query of a tick under way has answered
TimerPasses ==
    /\ Armed # {}
    /\ \A k \in Armed : host.due[k] > now
    /\ \A k \in Ticks : sched[k].pc # "getList"
    /\ NextDue <= StartTime + MaxHours * Hour
    /\ now' = NextDue
    /\ UNCHANGED <<dbVars, envVars>>

\* a second message arrives in the chat, in the hour before 09:00 of the second
\* day or later
MessageArrives ==
    /\ ~HasMessage(TldrChat, 2)
    /\ now >= Window0 + 23 * Hour
    /\ processMessageForCache(TldrChat, 2, [user_id |-> 1, username |-> "ann",
                                            first_name |-> "Ann", is_bot |-> FALSE],
                              Text)

NextSched ==
    \/ Sched("sched")
    \/ Sched("initial")
    \/ MessageArrives
    \/ TimerPasses

SpecSched == InitSched /\ [][NextSched]_vars

-----------------------------------------------------------------------------
(* SpecDaily: the ticks of SpecSched with every call answered and the capability
   returning a text, the last summary of an earlier process none or the one of
   09:02 of the day before; every timer fires and every awaited call answers in
   the end *)

\* the summary sent on the day before, two minutes into its window
DailyLastRuns == {0, Window0 - 24 * Hour + 2 * 60}

InitDaily ==
    /\ \E started \in ProcessStarts :
         /\ now = started
         /\ host = [HostIdle EXCEPT !.due = [k \in Ticks |->
                        IF k = "sched" THEN started + Hour ELSE started + 5 * 60]]
    /\ \E last \in DailyLastRuns :
         /\ settings = [c \in Chats |->
                IF c = TldrChat
                THEN SettingsRow(FALSE, FALSE, {}, TRUE, "daily", <<9, 0>>, last)
                ELSE NoSettings]
         /\ lastSent = [c \in Chats |-> IF c = TldrChat THEN last ELSE 0]
    /\ groups = [c \in Chats |-> IF c = TldrChat THEN GroupRow(TRUE, TRUE) ELSE NoRow]
    /\ messages = [c \in Chats |->
           IF c = TldrChat
           THEN <<MessageRow(c, 1, 1, "ann", Text, Window0 - 2 * Hour)>> ELSE <<>>]
    /\ summaries = <<>>
    /\ rateLimitMap = [p \in Pairs |-> 0]
    /\ accepted = [p \in Pairs |-> 0]
    /\ lastRequest = [p \in Pairs |-> 0]
    /\ sm = [t \in Tasks |-> SmIdle]
    /\ direct = DirectIdle
    /\ tldr = [h \in Handlers |-> TldrIdle]
    /\ evict = EvictIdle
    /\ sched = [k \in Ticks |-> SchedIdle]
    /\ orphan = OrphanIdle
    /\ caller = "none"
    /\ parsed = ParseIdle
    /\ caching = CacheIdle

\* the capability answers the request of the tick with a text
SchedSumOk(k) ==
    /\ sched[k].pc = "summarizing"
    /\ SumStep(k, {out \in Outcomes : out.ok /\ out.text # ""})
    /\ UNCHANGED <<botVars, direct>>

\* the steps of a tick in which no call fails
DailyTick(k) ==
    \/ SchedStart(k) \/ SchedList(k) \/ SchedGroup(k) \/ SchedGroup2(k) \/ SchedRead(k)
    \/ SchedSumOk(k) \/ SchedReturn(k) \/ SchedSend(k) \/ SchedUpdate(k)

NextDaily ==
    \/ DailyTick("sched")
    \/ DailyTick("initial")
    \/ TimerPasses

SpecDaily ==
    /\ InitDaily /\ [][NextDaily]_vars
    /\ WF_vars(DailyTick("sched")) /\ WF_vars(DailyTick("initial")) /\ WF_vars(TimerPasses)


-----------------------------------------------------------------------------
(* The hourly tick of 09:00 over windows of few messages and of as many as the
   read of generateScheduledSummary asks for, and one more *)

\* the numbers of messages in the 24 hours before the tick
WindowSizes == {0, 1, 2, 1000, 1001}

\* the messages of a window, a second apart up to the second before the tick: texts
\* of a member, the first a command, the last the text of a bot
WindowCache(c, n) ==
    [k \in 1..n |->
        MessageRow(c, k, IF k = n THEN 2 ELSE 1, IF k = n THEN "bot" ELSE "ann",
                   IF k = 1 THEN Command ELSE Text, Window0 - n - 1 + k)]

InitWindow ==
    /\ now = Window0
    /\ host = [HostIdle EXCEPT !.due = [k \in Ticks |-> IF k = "sched" THEN Window0 ELSE 0]]
    /\ \E bot \in BOOLEAN, cmd \in BOOLEAN :
         settings = [c \in Chats |->
                IF c = TldrChat
                THEN SettingsRow(bot, cmd, {}, TRUE, "daily", <<9, 0>>, 0)
                ELSE NoSettings]
    /\ lastSent = [c \in Chats |-> 0]
    /\ groups = [c \in Chats |-> IF c = TldrChat THEN GroupRow(TRUE, TRUE) ELSE NoRow]
    /\ \E n \in WindowSizes :
         messages = [c \in Chats |-> IF c = TldrChat THEN WindowCache(c, n) ELSE <<>>]
    /\ summaries = <<>>
    /\ rateLimitMap = [p \in Pairs |-> 0]
    /\ accepted = [p \in Pairs |-> 0]
    /\ lastRequest = [p \in Pairs |-> 0]
    /\ sm = [t \in Tasks |-> SmIdle]
    /\ direct = DirectIdle
    /\ tldr = [h \in Handlers |-> TldrIdle]
    /\ evict = EvictIdle
    /\ sched = [k \in Ticks |-> SchedIdle]
    /\ orphan = OrphanIdle
    /\ caller = "none"
    /\ parsed = ParseIdle
    /\ caching = CacheIdle

NextWindow == Sched("sched")

SpecWindow == InitWindow /\ [][NextWindow]_vars

-----------------------------------------------------------------------------
(* SpecSettings: the buttons of the schedule and filter menus, tapped by admins
   and by other members, for two configured chats *)

InitSettings ==
    /\ now = StartTime
    /\ groups = [c \in Chats |-> GroupRow(TRUE, TRUE)]
    /\ messages = [c \in Chats |-> <<>>]
    /\ settings = [c \in Chats |-> NoSettings]
    /\ summaries = <<>>
    /\ rateLimitMap = [p \in Pairs |-> 0]
    /\ accepted = [p \in Pairs |-> 0]
    /\ lastRequest = [p \in Pairs |-> 0]
    /\ sm = [t \in Tasks |-> SmIdle]
    /\ direct = DirectIdle
    /\ tldr = [h \in Handlers |-> TldrIdle]
    /\ evict = EvictIdle
    /\ sched = [k \in Ticks |-> SchedIdle]
    /\ orphan = OrphanIdle
    /\ host = HostIdle
    /\ lastSent = [c \in Chats |-> 0]
    /\ caller = "none"
    /\ parsed = ParseIdle
    /\ caching = CacheIdle

NextSettings ==
    \E c \in Chats :
        \/ handleScheduleToggle(c)
        \/ handleScheduleFrequency(c)
        \/ handleFilterBot(c)
        \/ handleFilterCmd(c)

SpecSettings == InitSettings /\ [][NextSettings]_vars

-----------------------------------------------------------------------------
(* SpecCache: messages and edited messages of one configured chat delivered to
   the cache, with the command filter toggled and the clock going on *)

\* who sends: a member, the same member after a change of names, and a bot
Senders ==
    {[user_id |-> 1, username |-> "ann", first_name |-> "Ann", is_bot |-> FALSE],
     [user_id |-> 1, username |-> "anna", first_name |-> "Anna", is_bot |-> FALSE],
     [user_id |-> 2, username |-> "bot", first_name |-> "Bot", is_bot |-> TRUE]}

\* the message ids delivered, and the texts: a text, a command, none
DeliveredIds == {1, 2}
Contents == {Text, Command, <<>>}

InitCache ==
    /\ now = StartTime
    /\ groups = [c \in Chats |-> IF c = TldrChat THEN GroupRow(TRUE, TRUE) ELSE NoRow]
    /\ messages = [c \in Chats |-> <<>>]
    /\ settings = [c \in Chats |-> NoSettings]
    /\ summaries = <<>>
    /\ rateLimitMap = [p \in Pairs |-> 0]
    /\ accepted = [p \in Pairs |-> 0]
    /\ lastRequest = [p \in Pairs |-> 0]
    /\ sm = [t \in Tasks |-> SmIdle]
    /\ direct = DirectIdle
    /\ tldr = [h \in Handlers |-> TldrIdle]
    /\ evict = EvictIdle
    /\ sched = [k \in Ticks |-> SchedIdle]
    /\ orphan = OrphanIdle
    /\ host = HostIdle
    /\ lastSent = [c \in Chats |-> 0]
    /\ caller = "none"
    /\ parsed = ParseIdle
    /\ caching = CacheIdle

\* a message, or an edit of one, is delivered
Delivery ==
    \E id \in DeliveredIds, sender \in Senders, content \in Contents :
        processMessageForCache(TldrChat, id, sender, content)

NextCache ==
    \/ Delivery
    \/ handleFilterCmd(TldrChat)
    \/ SecondsPass

SpecCache == InitCache /\ [][NextCache]_vars

-----------------------------------------------------------------------------
(* The parser applied to the texts of a /tldr, the clock advancing between the
   read of the input and the call of the parser *)

\* a text is any string of up to MaxTextLen of these characters, or one of Examples
MaxTextLen == 3
Alphabet == {"0", "1", "7", "9", "h", "d", "H", " ", "x", "-"}
ShortTexts == UNION {[1..n -> Alphabet] : n \in 0..MaxTextLen}

Examples ==
    {<<"1", "0", "0", "0", "0">>, <<"1", "0", "0", "0", "1">>,
     <<"9", "9", "9", "9", "9">>, <<"1", "0", "0">>, <<"1", "0", "0", "0">>,
     <<"0", "0", "7">>, <<"0", "0", "0", "0">>, <<"0", "0", "1", "0", "0">>,
     <<"9", "9", "9", "9", "h">>, <<"1", "6", "8", "h">>, <<"1", "6", "9", "h">>,
     <<"2", "0", "0", "h">>, <<"2", "4", "h">>, <<"3", "0", "h">>, <<"6", "H">>,
     <<"3", " ", "d", "a", "y", "s">>, <<"1", " ", "d", "a", "y">>,
     <<"0", " ", "d", "a", "y", "s">>, <<"7", " ", "d", "a", "y", "s">>,
     <<"8", " ", "d", "a", "y", "s">>, <<"3", " ", "D", "A", "Y", "S">>,
     <<"2", " ", " ", "d", "a", "y", "s">>, <<"2", " ", "\t", "d", "a", "y", "s">>,
     <<"1", " ", "h", "o", "u", "r">>, <<"5", " ", "h", "o", "u", "r", "s">>,
     <<"1", "6", "8", " ", "h", "o", "u", "r", "s">>,
     <<"2", "0", "0", " ", "h", "o", "u", "r", "s">>, <<"5", " ", "h">>,
     <<"0", " ", "h", "o", "u", "r", "s">>, <<"1", " ", "w", "e", "e", "k">>,
     <<"2", " ", "w", "e", "e", "k", "s">>, <<"0", " ", "w", "e", "e", "k", "s">>,
     <<"1", " ", "w", "e", "e", "k", "s">>, <<"d", "a", "y">>, <<"w", "e", "e", "k">>,
     <<"W", "e", "e", "k">>, <<"d", "a", "y", "s">>, <<"w", "e", "e", "k", "s">>,
     <<"h", "o", "u", "r">>, <<"7", "d">>, <<"8", "d">>, <<"3", "0", "d">>,
     <<"3", "d">>, <<"0", "d">>, <<"0", "0", "h">>, <<"0", "h">>, <<"x", "d">>,
     <<"b", "a", "d">>, <<"a", "b", "c">>, <<"x", "h">>, <<"1", ".", "5", "h">>,
     <<"-", "5", "h">>, <<"-", "5">>, <<"-", "5", "d">>,
     <<"5", " ", "a", "p", "p", "l", "e", "s">>,
     <<"5", " ", "m", "o", "n", "t", "h", "s">>, <<"3", " ", "f", "o", "o">>,
     <<"1", "2", "x">>, <<"2", " ", "w", "e", "e", "k", "d">>,
     <<"3", " ", "d", "a", "y", "z">>, <<"5", " ", "d">>, <<" ", "3", "d", " ">>,
     <<" ", "1", "2", " ">>, <<"h">>, <<"d">>, <<"1", "h", "2">>,
     <<"h", "d", " ", "5">>}

Texts == ShortTexts \cup Examples

InitParse ==
    /\ now = StartTime
    /\ groups = [c \in Chats |-> NoRow]
    /\ messages = [c \in Chats |-> <<>>]
    /\ settings = [c \in Chats |-> NoSettings]
    /\ summaries = <<>>
    /\ rateLimitMap = [p \in Pairs |-> 0]
    /\ accepted = [p \in Pairs |-> 0]
    /\ lastRequest = [p \in Pairs |-> 0]
    /\ sm = [t \in Tasks |-> SmIdle]
    /\ direct = DirectIdle
    /\ tldr = [h \in Handlers |-> TldrIdle]
    /\ evict = EvictIdle
    /\ sched = [k \in Ticks |-> SchedIdle]
    /\ orphan = OrphanIdle
    /\ host = HostIdle
    /\ lastSent = [c \in Chats |-> 0]
    /\ caller = "none"
    /\ \E text \in Texts : parsed = [ParseIdle EXCEPT !.text = text]
    /\ caching = CacheIdle

NextParse ==
    \/ ReadInput
    \/ Select
    \/ SecondsPass

SpecParse == InitParse /\ [][NextParse]_vars

-----------------------------------------------------------------------------
(* filterMessages applied by a /tldr handler to caches of every make-up under
   every filter setting, the window of the rate limiter passing *)

\* the caches hold up to MaxFilterLen messages
MaxFilterLen == 3

\* the messages of a cache: a text and a command of a member, a text of a bot with
\* and without a user id
FilterKinds == {"text", "command", "bot", "anonymous bot"}

FilterRow(kind, k) ==
    MessageRow(TldrChat, k,
               CASE kind = "anonymous bot" -> 0 [] kind = "bot" -> 2 [] OTHER -> 1,
               IF kind \in {"bot", "anonymous bot"} THEN "bot" ELSE "ann",
               IF kind = "command" THEN Command ELSE Text,
               StartTime - 100 + k)

FilterCaches ==
    {[k \in 1..Len(kinds) |-> FilterRow(kinds[k], k)] :
        kinds \in UNION {[1..n -> FilterKinds] : n \in 0..MaxFilterLen}}

FilterSettings ==
    {SettingsRow(bot, cmd, users, FALSE, "daily", <<9, 0>>, 0) :
        bot \in BOOLEAN, cmd \in BOOLEAN, users \in {{}, {1}}}

InitFilter ==
    /\ now = StartTime
    /\ groups = [c \in Chats |-> IF c = TldrChat THEN GroupRow(TRUE, TRUE) ELSE NoRow]
    /\ \E cache \in FilterCaches :
         messages = [c \in Chats |-> IF c = TldrChat THEN cache ELSE <<>>]
    /\ \E st \in FilterSettings :
         settings = [c \in Chats |-> IF c = TldrChat THEN st ELSE NoSettings]
    /\ summaries = <<>>
    /\ rateLimitMap = [p \in Pairs |-> 0]
    /\ accepted = [p \in Pairs |-> 0]
    /\ lastRequest = [p \in Pairs |-> 0]
    /\ sm = [t \in Tasks |-> SmIdle]
    /\ direct = DirectIdle
    /\ tldr = [h \in Handlers |-> TldrIdle]
    /\ evict = EvictIdle
    /\ sched = [k \in Ticks |-> SchedIdle]
    /\ orphan = OrphanIdle
    /\ host = HostIdle
    /\ lastSent = [c \in Chats |-> 0]
    /\ caller = "none"
    /\ parsed = ParseIdle
    /\ caching = CacheIdle

\* one /tldr of the member
FirstTldr == tldr["h1"].pc = "idle" /\ TldrStart("h1", TldrChat, {1})

NextFilter ==
    \/ FirstTldr
    \/ TldrRun("h1")
    \/ WindowPasses

SpecFilter == InitFilter /\ [][NextFilter]_vars

-----------------------------------------------------------------------------
(* SpecTwoFilters: a /tldr handler and the tick of 00:00, one after the other in
   either order, over the caches of SpecFilter of up to two messages under every
   filter setting, the chat scheduled daily at 00:00 *)

\* the caches of SpecFilter of at most two messages
PairCaches == {cache \in FilterCaches : Len(cache) <= 2}

ScheduledFilterSettings ==
    {SettingsRow(bot, cmd, users, TRUE, "daily", <<0, 0>>, 0) :
        bot \in BOOLEAN, cmd \in BOOLEAN, users \in {{}, {1}}}

InitTwoFilters ==
    /\ now = StartTime
    /\ groups = [c \in Chats |-> IF c = TldrChat THEN GroupRow(TRUE, TRUE) ELSE NoRow]
    /\ \E cache \in PairCaches :
         messages = [c \in Chats |-> IF c = TldrChat THEN cache ELSE <<>>]
    /\ \E st \in ScheduledFilterSettings :
         settings = [c \in Chats |-> IF c = TldrChat THEN st ELSE NoSettings]
    /\ summaries = <<>>
    /\ rateLimitMap = [p \in Pairs |-> 0]
    /\ accepted = [p \in Pairs |-> 0]
    /\ lastRequest = [p \in Pairs |-> 0]
    /\ sm = [t \in Tasks |-> SmIdle]
    /\ direct = DirectIdle
    /\ tldr = [h \in Handlers |-> TldrIdle]
    /\ evict = EvictIdle
    /\ sched = [k \in Ticks |-> SchedIdle]
    /\ orphan = OrphanIdle
    /\ host = [HostIdle EXCEPT !.due["sched"] = StartTime]
    /\ lastSent = [c \in Chats |-> 0]
    /\ caller = "none"
    /\ parsed = ParseIdle
    /\ caching = CacheIdle

\* the handler or the tick starts when the other has ended
StartFilter ==
    /\ InFlight = {}
    /\ FirstTldr \/ SchedStart("sched")

NextTwoFilters ==
    \/ StartFilter
    \/ TldrRun("h1")
    \/ SchedRun("sched")
    \/ WindowPasses

SpecTwoFilters == InitTwoFilters /\ [][NextTwoFilters]_vars


-----------------------------------------------------------------------------
(* The eviction run over stale caches of every make-up under every filter
   setting, the filter buttons tapped while it runs *)

\* the caches hold up to MaxArchiveLen messages
MaxArchiveLen == 2

\* a stale message of a kind of FilterKinds, or one with a blank text
ArchiveKinds == FilterKinds \cup {"blank"}

ArchiveRow(kind, k) ==
    [FilterRow(kind, k) EXCEPT
        !.content = IF kind = "blank" THEN <<" ">> ELSE @,
        !.timestamp = StartTime - (RetentionHours + 2) * Hour + k]

ArchiveCaches ==
    {[k \in 1..Len(kinds) |-> ArchiveRow(kinds[k], k)] :
        kinds \in UNION {[1..n -> ArchiveKinds] : n \in 0..MaxArchiveLen}}

InitArchive ==
    /\ now = StartTime
    /\ groups = [c \in Chats |-> IF c = TldrChat THEN GroupRow(TRUE, TRUE) ELSE NoRow]
    /\ \E cache \in ArchiveCaches :
         messages = [c \in Chats |-> IF c = TldrChat THEN cache ELSE <<>>]
    /\ \E st \in FilterSettings :
         settings = [c \in Chats |-> IF c = TldrChat THEN st ELSE NoSettings]
    /\ summaries = <<>>
    /\ rateLimitMap = [p \in Pairs |-> 0]
    /\ accepted = [p \in Pairs |-> 0]
    /\ lastRequest = [p \in Pairs |-> 0]
    /\ sm = [t \in Tasks |-> SmIdle]
    /\ direct = DirectIdle
    /\ tldr = [h \in Handlers |-> TldrIdle]
    /\ evict = EvictIdle
    /\ sched = [k \in Ticks |-> SchedIdle]
    /\ orphan = OrphanIdle
    /\ host = HostIdle
    /\ lastSent = [c \in Chats |-> 0]
    /\ caller = "none"
    /\ parsed = ParseIdle
    /\ caching = CacheIdle

NextArchive ==
    \/ Evict
    \/ handleFilterBot(TldrChat)
    \/ handleFilterCmd(TldrChat)

SpecArchive == InitArchive /\ [][NextArchive]_vars

-----------------------------------------------------------------------------
(* SpecLoops: the eviction run and the tick of 09:00 over two chats, both set up,
   enabled and scheduled daily at 09:00, each with a stale message and one of the
   last minute *)

LoopCache(c) ==
    <<OldText(c, 1), MessageRow(c, 2, 1, "ann", Text, Window0 - 60)>>

InitLoops ==
    /\ now = Window0
    /\ host = [HostIdle EXCEPT !.due = [k \in Ticks |-> IF k = "sched" THEN Window0 ELSE 0]]
    /\ settings = [c \in Chats |-> SettingsRow(FALSE, FALSE, {}, TRUE, "daily", <<9, 0>>, 0)]
    /\ lastSent = [c \in Chats |-> 0]
    /\ groups = [c \in Chats |-> GroupRow(TRUE, TRUE)]
    /\ messages = [c \in Chats |-> LoopCache(c)]
    /\ summaries = <<>>
    /\ rateLimitMap = [p \in Pairs |-> 0]
    /\ accepted = [p \in Pairs |-> 0]
    /\ lastRequest = [p \in Pairs |-> 0]
    /\ sm = [t \in Tasks |-> SmIdle]
    /\ direct = DirectIdle
    /\ tldr = [h \in Handlers |-> TldrIdle]
    /\ evict = EvictIdle
    /\ sched = [k \in Ticks |-> SchedIdle]
    /\ orphan = OrphanIdle
    /\ caller = "none"
    /\ parsed = ParseIdle
    /\ caching = CacheIdle

\* the run or the tick starts when the other has ended
StartLoop ==
    /\ InFlight = {}
    /\ EvictStart \/ SchedStart("sched")

NextLoops == StartLoop \/ EvictRun \/ SchedRun("sched")

SpecLoops == InitLoops /\ [][NextLoops]_vars

-----------------------------------------------------------------------------
(* SpecRemoval: messages of the first chat delivered to the cache while groups are
   removed by the button of /remove_group, by the event of the bot leaving and by
   the orphan check, and set up again *)

\* the my_chat_member handler for the status left or kicked: deleteGroup, with ON
\* DELETE CASCADE on messages; without a row nothing is deleted
handleMyChatMember(c) ==
    /\ groups' = deleteGroup(c)
    /\ messages' = deleteGroupMessages(c)
    /\ UNCHANGED <<now, settings, summaries, envVars>>

InitRemoval ==
    /\ now = StartTime
    /\ groups = [c \in Chats |-> GroupRow(TRUE, TRUE)]
    /\ messages = [c \in Chats |-> <<MessageRow(c, 1, 1, "ann", Text, StartTime)>>]
    /\ settings = [c \in Chats |-> NoSettings]
    /\ summaries = <<>>
    /\ rateLimitMap = [p \in Pairs |-> 0]
    /\ accepted = [p \in Pairs |-> 0]
    /\ lastRequest = [p \in Pairs |-> 0]
    /\ sm = [t \in Tasks |-> SmIdle]
    /\ direct = DirectIdle
    /\ tldr = [h \in Handlers |-> TldrIdle]
    /\ evict = EvictIdle
    /\ sched = [k \in Ticks |-> SchedIdle]
    /\ orphan = OrphanIdle
    /\ host = HostIdle
    /\ lastSent = [c \in Chats |-> 0]
    /\ caller = "none"
    /\ parsed = ParseIdle
    /\ caching = CacheIdle

\* a text of the member is delivered for the first chat
DeliveryStarts ==
    \E id \in DeliveredIds, sender \in {s \in Senders : s.username = "ann"} :
        CacheStart(TldrChat, id, sender, Text)

NextRemoval ==
    \/ DeliveryStarts
    \/ CacheRun
    \/ \E c \in Chats : RemoveGroup(c)
    \/ \E c \in Chats : handleMyChatMember(c)
    \/ Orphan
    \/ SetupGroup(TldrChat)
    \/ SetupApiKey(TldrChat)

SpecRemoval == InitRemoval /\ [][NextRemoval]_vars




NextSum == DirectCall \/ DirectSum \/ DirectReturn \/ DirectThrow

SpecSum == InitBot /\ [][NextSum]_vars

\* SpecSum with every request answered and every backoff timer fired in the end,
\* and the caller resumed once the invocation has ended
SpecSumLive ==
    SpecSum /\ WF_vars(DirectSum) /\ WF_vars(DirectReturn \/ DirectThrow)

(* Properties of the periodic concerns, checked in SpecHost *)

\* the concerns whose last tick ended in a failure
Failed ==
    {c \in {"eviction"} : evict.pc = "done" /\ evict.outcome = "threw"}
    \cup {c \in {"pruning"} : host.prune = "threw"}
    \cup {c \in {"scheduled"} : sched["sched"].pc = "done" /\ sched["sched"].outcome = "threw"}
    \cup {c \in {"orphans"} : orphan.pc = "done" /\ orphan.outcome = "threw"}

\* C17: when the tick of a periodic concern (eviction, summary pruning, scheduled
\* summaries, orphan check) has ended in a failure, the process is still alive,
\* the hourly timer of the scheduled summaries is still armed, and every concern
\* that is not in the middle of a tick, the failed one included, can start its
\* next tick (the scheduled one as soon as its timer is due)
C17_FailureStaysInItsTick ==
    Failed # {} =>
        /\ host.alive
        /\ host.due["sched"] # 0
        /\ evict.pc \in {"idle", "done"} => ENABLED EvictStart
        /\ host.prune # "query" => ENABLED PruneStart
        /\ orphan.pc \in {"idle", "done"} => ENABLED OrphanStart
        /\ (sched["sched"].pc \in {"idle", "done"} /\ now >= host.due["sched"])
              => ENABLED SchedStart("sched")

\* the last tick of every one of the four concerns ended in a failure
C17_Witness == Failed = {"eviction", "pruning", "scheduled", "orphans"}

(* Properties of the orphan check, checked in SpecOrphan *)

\* what the lookups answered says that the bot is not in the chat: the status
\* left or kicked, or a lookup that failed with error code 400 or 403
Definitive(signal) ==
    \/ signal[1] \in {"left", "kicked"}
    \/ signal[1] \in {"getChat", "getChatMember"} /\ signal[2] \in {400, 403}

\* C19: a step of the orphan check changes the group row or the cached messages
\* of a chat only when it is the chat at hand and the lookups of this check
\* answered for it with a definitive signal (status left or kicked, or a getChat
\* or getChatMember failure with error code 400 or 403); after any other answer
\* (another status, a failure with another code or with none) the row and the
\* messages stay as they are, and the check never counts such a chat as deleted
C19_DeletesOnlyOnDefinitiveSignal ==
    /\ [](\A c \in orphan.deleted : Definitive(orphan.signal[c]))
    /\ [][orphan' # orphan =>
            \A c \in Chats :
                (groups'[c] # groups[c] \/ messages'[c] # messages[c])
                    => c = orphan.chat /\ Definitive(orphan.signal[c])]_vars

\* a check ended that deleted the first chat and its messages after a lookup
\* failed with 403, and left the second, for which getChat failed without an
\* error code, with its row and its messages
C19_Witness ==
    /\ orphan.pc = "done" /\ orphan.outcome = "checked"
    /\ orphan.deleted = {TldrChat}
    /\ orphan.signal[TldrChat][2] = 403
    /\ ~groups[TldrChat].exists /\ messages[TldrChat] = <<>>
    /\ \E c \in Chats \ {TldrChat} :
         /\ orphan.signal[c] = <<"getChat", 0>>
         /\ groups[c].exists /\ Len(messages[c]) = 1

(* Properties of the scheduled summaries from the start of a process on, checked
   in SpecSched *)

\* C18: whenever a tick, the hourly one or the initial check, delivers a
\* scheduled summary to a chat, the summary delivered to that chat before it, if
\* there was one, was delivered at least 23 hours earlier
C18_DeliveriesApart ==
    [][\A k \in Ticks :
          (sched[k].pc = "send" /\ sched'[k].sent # sched[k].sent)
              => LET c == sched[k].chat
                 IN  lastSent[c] = 0 \/ now - lastSent[c] >= 23 * Hour]_vars

\* a tick is about to deliver a summary at 09:00 of the second day, the process
\* having delivered one at 09:00 of the first
C18_Witness ==
    \E k \in Ticks :
        /\ sched[k].pc = "send"
        /\ now = Window0 + 24 * Hour
        /\ lastSent[sched[k].chat] = Window0

(* Properties of the settings buttons, checked in SpecSettings *)

\* the settings of a chat that the menus show and change
Shown(st) ==
    <<st.exclude_bot_messages, st.exclude_commands, st.scheduled_enabled,
      st.schedule_frequency>>

\* C20: the filters, the schedule enablement and the schedule frequency of a chat
\* change only in a step whose caller is an administrator or creator of the chat
C20_OnlyAdminsChangeSettings ==
    [][\A c \in Chats :
          Shown(settings'[c]) # Shown(settings[c]) => caller' = "admin"]_vars

(* Properties of the message cache, checked in SpecCache *)

\* the row of chat c with message id `id`
RowOf(rows, id) == rows[CHOOSE k \in 1..Len(rows) : rows[k].message_id = id]

C2_MergeFailureFallsBack ==
    LET s == sm["direct"]
        n == Len(s.chunks)
        last == Len(s.reqs)
        SummaryOf(k) ==
            LET j == CHOOSE j \in 1..last :
                        /\ s.reqs[j].kind = "chunk" /\ s.reqs[j].idx = k - 1
                        /\ s.replies[j].ok
            IN  IF s.replies[j].text = "" THEN Lit("Generated summary (no text returned)")
                ELSE ModelText(s.replies[j].text)
    IN  (/\ s.path = "multi" /\ last > 0 /\ Len(s.replies) = last
         /\ s.reqs[last].kind = "merge" /\ ~s.replies[last].ok)
        => /\ s.pc = "done"
           /\ direct.pc # "threw"
           /\ s.result.kind = "fallback"
           /\ s.result.total = direct.n
           /\ Len(s.result.parts) = n
           /\ \A k \in 1..n :
                s.result.parts[k] = [idx |-> k, of |-> n, count |-> Len(s.chunks[k]),
                                     text |-> SummaryOf(k)]
           /\ direct.pc = "returned" => direct.text = s.result

\* a call over MaxChunks chunks returned the fallback text
C2_Witness ==
    /\ direct.pc = "returned"
    /\ direct.text.kind = "fallback"
    /\ Len(direct.text.parts) = MaxChunks
    /\ ~sm["direct"].replies[Len(sm["direct"].replies)].ok

\* C9: summarizeMessages on an empty sequence returns the sentinel
\* 'No messages found in the specified time range.' and issues no request
C9_EmptyInputSentinel ==
    (direct.pc # "idle" /\ direct.n = 0)
    => /\ sm["direct"].pc = "done"
       /\ sm["direct"].result = Lit("No messages found in the specified time range.")
       /\ sm["direct"].reqs = <<>>
       /\ direct.pc # "threw"
       /\ direct.pc = "returned"
            => direct.text = Lit("No messages found in the specified time range.")

\* the call on the empty sequence returned
C9_Witness ==
    /\ direct.pc = "returned" /\ direct.n = 0
    /\ sm["direct"].path = "empty"

\* C10: an input of n > 1000 messages is split into ceil(n / 900) contiguous chunks
\* of 1 to 900 messages whose concatenation is the input; the chunks are
\* summarized one after the other, each one once (one summary per chunk, from at
\* most maxRetries requests that carry that chunk), and when all are summarized
\* exactly one merge request is issued, after the last chunk
C10_ChunkingPartitionsInput ==
    LET s == sm["direct"]
        n == direct.n
        N == Len(s.chunks)
        Concat[k \in 0..N] == IF k = 0 THEN <<>> ELSE Concat[k - 1] \o s.chunks[k]
        ChunkReqs(k) == {j \in 1..Len(s.reqs) :
                            s.reqs[j].kind = "chunk" /\ s.reqs[j].idx = k - 1}
        MergeReqs == {j \in 1..Len(s.reqs) : s.reqs[j].kind = "merge"}
        Succeeded(k) == {j \in ChunkReqs(k) : j <= Len(s.replies) /\ s.replies[j].ok}
    IN  (direct.pc # "idle" /\ n > 1000)
        => /\ s.path = "multi"
           /\ N = (n + 899) \div 900
           /\ \A k \in 1..N : Len(s.chunks[k]) \in 1..900
           /\ Concat[N] = InputOf(n)
           /\ \A j \in 1..Len(s.reqs) :
                \/ j \in MergeReqs
                \/ /\ s.reqs[j].idx \in 0..(N - 1)
                   /\ s.reqs[j].count = Len(s.chunks[s.reqs[j].idx + 1])
                   /\ s.reqs[j].first = s.chunks[s.reqs[j].idx + 1][1]
           /\ \A j1, j2 \in 1..Len(s.reqs) :
                (j1 < j2 /\ j2 \notin MergeReqs)
                => /\ j1 \notin MergeReqs
                   /\ s.reqs[j1].idx <= s.reqs[j2].idx
                   /\ j1 \in Succeeded(s.reqs[j1].idx + 1)
                        => s.reqs[j1].idx < s.reqs[j2].idx
           /\ \A k \in 1..N : /\ Cardinality(ChunkReqs(k)) <= 3
                              /\ Cardinality(Succeeded(k)) <= 1
           /\ Len(s.chunkSummaries) = Cardinality({k \in 1..N : Succeeded(k) # {}})
           /\ \A k \in 1..Len(s.chunkSummaries) :
                /\ s.chunkSummaries[k].idx = k
                /\ s.chunkSummaries[k].count = Len(s.chunks[k])
           /\ Cardinality(MergeReqs) <= 1
           /\ MergeReqs # {} <=> \A k \in 1..N : Succeeded(k) # {}
           /\ s.pc = "done" => MergeReqs = {Len(s.reqs)}

\* 2500 messages were summarized in three chunks of 900, 900 and 700 and merged
C10_Witness ==
    /\ direct.pc = "returned" /\ direct.n = 2500
    /\ Len(sm["direct"].chunks) = 3
    /\ Len(sm["direct"].chunks[3]) = 700
    /\ sm["direct"].reqs[Len(sm["direct"].reqs)].kind = "merge"
    /\ sm["direct"].replies[Len(sm["direct"].replies)].ok

\* C11: a call on n messages, 1 <= n <= 1000 (1000 included), takes the single-chunk
\* path: every request it issues is a chunk request that carries the whole input
\* (one summarizeChunk call, of at most maxRetries attempts), it issues no merge
\* request, and what it returns is the text of that chunk request; a call takes the
\* multi-chunk path exactly when n > 1000
C11_SingleChunkUpToThreshold ==
    LET s == sm["direct"]
        n == direct.n
    IN  direct.pc # "idle"
        => /\ s.path = "multi" <=> n > 1000
           /\ s.path = "single" <=> n \in 1..1000
           /\ n \in 1..1000
                => /\ s.chunks = <<InputOf(n)>>
                   /\ Len(s.reqs) \in 1..3
                   /\ \A j \in 1..Len(s.reqs) :
                        /\ s.reqs[j].kind = "chunk"
                        /\ s.reqs[j].idx = 0
                        /\ s.reqs[j].attempt = j - 1
                        /\ s.reqs[j].count = n
                        /\ s.reqs[j].first = 1
                        /\ j < Len(s.reqs) => ~s.replies[j].ok
                   /\ s.chunkSummaries = <<>>
                   /\ s.pc = "done"
                        => /\ s.replies[Len(s.reqs)].ok
                           /\ s.result = ChunkText(s.replies[Len(s.reqs)].text)

\* a call on exactly 1000 messages returned the text of its one request
C11_Witness ==
    /\ direct.pc = "returned" /\ direct.n = 1000
    /\ sm["direct"].path = "single"
    /\ Len(sm["direct"].reqs) = 1
    /\ direct.text = ModelText("a")

\* C12: the requests for one chunk are attempts 1, 2 and 3 at most.  After a
\* request that succeeded nothing more is sent for that chunk; after a failed
\* attempt 1 or 2 the call waits (1000 ms after attempt 1, 2000 ms after attempt 2)
\* and then sends the next attempt for the same chunk; after a failed attempt 3
\* the call fails at once, with no wait and no further request
C12_AtMostThreeAttempts ==
    LET s == sm["direct"]
        R == Len(s.reqs)
        A == Len(s.replies)
        Retried(j) == s.reqs[j].kind = "chunk" /\ ~s.replies[j].ok /\ s.reqs[j].attempt < 2
        Waited[j \in 0..A] ==
            IF j = 0 THEN <<>>
            ELSE IF Retried(j)
                 THEN Append(Waited[j - 1], IF s.reqs[j].attempt = 0 THEN 1000 ELSE 2000)
                 ELSE Waited[j - 1]
    IN  /\ A \in {R, R - 1} \cap Nat
        /\ s.waits = Waited[A]
        /\ \A j \in 1..R :
             s.reqs[j].kind = "chunk"
             => /\ s.reqs[j].attempt \in 0..2
                /\ s.reqs[j].attempt > 0
                     => /\ s.reqs[j - 1].kind = "chunk"
                        /\ s.reqs[j - 1].idx = s.reqs[j].idx
                        /\ s.reqs[j - 1].attempt = s.reqs[j].attempt - 1
                        /\ ~s.replies[j - 1].ok
        /\ \A j \in 1..A :
             s.reqs[j].kind = "chunk"
             => /\ s.replies[j].ok
                     => \A k \in (j + 1)..R :
                          s.reqs[k].kind = "merge" \/ s.reqs[k].idx > s.reqs[j].idx
                /\ Retried(j)
                     => IF j = R THEN s.pc = "backoff"
                        ELSE /\ s.reqs[j + 1].kind = "chunk"
                             /\ s.reqs[j + 1].idx = s.reqs[j].idx
                             /\ s.reqs[j + 1].attempt = s.reqs[j].attempt + 1
                /\ (~s.replies[j].ok /\ s.reqs[j].attempt = 2)
                     => /\ j = R
                        /\ s.pc = "failed"
                        /\ direct.pc \in {"waiting", "threw"}
        /\ s.pc = "backoff" => (A = R /\ A > 0 /\ Retried(A))

\* three attempts for the second chunk of a call failed, after waits of 1000 ms
\* and 2000 ms, and the call failed
C12_Witness ==
    /\ direct.pc = "threw"
    /\ sm["direct"].path = "multi"
    /\ sm["direct"].i = 1
    /\ sm["direct"].waits = <<1000, 2000>>
    /\ Len(sm["direct"].reqs) = 4
    /\ sm["direct"].reqs[4].attempt = 2

\* C13: within one call the requests never overlap (a request is sent only when
\* every earlier one has been answered) and follow the chunk order: the first
\* request is for chunk 1, the first request for chunk i+1 comes right after the
\* request that succeeded for chunk i, retries stay on their chunk, and the merge
\* request comes right after the request that succeeded for the last chunk
C13_ChunksStrictlyInSequence ==
    LET s == sm["direct"]
        R == Len(s.reqs)
        A == Len(s.replies)
        N == Len(s.chunks)
    IN  /\ A <= R /\ R <= A + 1
        /\ \A j \in 1..R :
             /\ j = 1 => (s.reqs[j].kind = "chunk" /\ s.reqs[j].idx = 0
                          /\ s.reqs[j].attempt = 0)
             /\ j > 1 =>
                  /\ j - 1 <= A
                  /\ s.reqs[j - 1].kind = "chunk"
                  /\ IF s.reqs[j].kind = "merge"
                     THEN /\ s.reqs[j - 1].idx = N - 1
                          /\ s.replies[j - 1].ok
                          /\ \A i \in 0..(N - 1) :
                               \E k \in 1..(j - 1) :
                                 /\ s.reqs[k].kind = "chunk" /\ s.reqs[k].idx = i
                                 /\ s.replies[k].ok
                     ELSE IF s.reqs[j].attempt = 0
                     THEN /\ s.reqs[j].idx = s.reqs[j - 1].idx + 1
                          /\ s.replies[j - 1].ok
                     ELSE /\ s.reqs[j].idx = s.reqs[j - 1].idx
                          /\ ~s.replies[j - 1].ok

\* a call over three chunks was merged after its second chunk took two attempts
C13_Witness ==
    /\ direct.pc = "returned"
    /\ Len(sm["direct"].chunks) = 3
    /\ Len(sm["direct"].reqs) = 5
    /\ sm["direct"].reqs[3].idx = 1 /\ sm["direct"].reqs[3].attempt = 1
    /\ sm["direct"].reqs[5].kind = "merge"

\* C14 (does not hold): on both paths a failure that reaches the caller of
\* summarizeMessages carries none of the markers (API_KEY_INVALID, 401,
\* Unauthorized, PERMISSION_DENIED, 403, QUOTA_EXCEEDED, 429, timeout, TIMEOUT,
\* network, ECONNREFUSED, ENOTFOUND): an error with a marker was re-raised as its
\* classified message, and only errors without a marker come through unchanged
C14_FailuresReachCallerClassified ==
    direct.pc = "threw"
    => direct.error \cap {"API_KEY_INVALID", "401", "Unauthorized", "PERMISSION_DENIED",
                          "403", "QUOTA_EXCEEDED", "429", "timeout", "TIMEOUT",
                          "network", "ECONNREFUSED", "ENOTFOUND"} = {}


(* Properties of the /tldr handlers *)

\* C5 (SpecLimit): a /tldr of a (chat, caller) pair less than 30 seconds after one of
\* the pair that passed the limiter is answered with the wait message, has read
\* nothing from the repository and has made no call of summarizeMessages, whatever
\* the other handler is doing; two requests of a pair that pass the limiter are
\* at least 30 seconds apart
C5_SecondRequestRejected ==
    [][\A h \in Handlers :
         LET key == <<tldr'[h].chat, tldr'[h].user>>
         IN  /\ (/\ tldr[h].pc \in {"idle", "done"} /\ tldr'[h] # tldr[h]
                 /\ accepted[key] # 0 /\ now - accepted[key] < 30)
                => /\ tldr'[h].pc = "done" /\ tldr'[h].outcome = "wait"
                   /\ tldr'[h].reads = 0 /\ tldr'[h].calls = 0
                   /\ sm'[h].reqs = <<>>
                   /\ accepted' = accepted
             /\ accepted'[key] # accepted[key]
                => accepted[key] = 0 \/ accepted'[key] - accepted[key] >= 30]_vars

\* a second request was rejected while the first, accepted 20 seconds before, was
\* still waiting for its summary
C5_Witness ==
    /\ tldr["h1"].pc = "summarizing"
    /\ tldr["h2"].pc = "done" /\ tldr["h2"].outcome = "wait"
    /\ tldr["h2"].user = tldr["h1"].user
    /\ lastRequest[<<TldrChat, tldr["h1"].user>>] = accepted[<<TldrChat, tldr["h1"].user>>] + 20

\* C6 (SpecTldr): a /tldr sent as a reply, in a group the configuration check saw
\* configured and enabled, by a pair that made no /tldr in the 30 seconds before,
\* is not answered with the wait message
C6_ReplyRequestAccepted ==
    \A h \in Handlers :
        (/\ tldr[h].pc = "done" /\ tldr[h].replyTo # 0 /\ tldr[h].fresh
         /\ tldr[h].checked = GroupRow(TRUE, TRUE))
        => tldr[h].outcome # "wait"

\* C7 (SpecTldr): a handler reads messages or calls summarizeMessages only after its
\* configuration check saw a group row with an API key and enabled; a request whose
\* check saw no row, no key or a disabled group is answered with the rejection
\* and has read no message
C7_NoGenerationUnlessConfigured ==
    \A h \in Handlers :
        /\ (tldr[h].reads > 0 \/ tldr[h].calls > 0 \/ sm[h].reqs # <<>>
            \/ tldr[h].pc \in {"read", "settings", "summarizing"})
           => (tldr[h].checked.exists /\ tldr[h].checked.key /\ tldr[h].checked.enabled)
        /\ (/\ tldr[h].pc \in {"getGroup2", "read", "settings", "summarizing", "done"}
            /\ tldr[h].outcome # "wait" /\ tldr[h].fresh
            /\ ~(tldr[h].checked.exists /\ tldr[h].checked.key /\ tldr[h].checked.enabled))
           => /\ tldr[h].pc = "done"
              /\ tldr[h].outcome \in {"notConfigured", "disabled", "error"}
              /\ tldr[h].reads = 0 /\ tldr[h].calls = 0

\* a request in a disabled group with cached messages was rejected
C7_Witness ==
    /\ tldr["h1"].pc = "done" /\ tldr["h1"].outcome = "disabled"
    /\ tldr["h1"].checked = GroupRow(TRUE, FALSE)
    /\ tldr["h1"].reads = 0 /\ tldr["h1"].calls = 0
    /\ messages[TldrChat] # <<>>

(* Properties of the eviction run, checked in SpecEvict *)

\* C1: when a chunk of a multi-chunk call failed on its last attempt, the call
\* fails: it has returned no text, no request for a later chunk and no merge
\* request has been or will be issued, and the eviction run that made the call
\* stores no summary for the chat: the chats whose call threw and the chats the
\* run ran insertSummary for are disjoint
C1_ChunkFailureFailsCall ==
    [][LET s == sm["evict"]
           last == Len(s.reqs)
           exhausted == {j \in 1..Len(s.replies) :
                            /\ s.reqs[j].kind = "chunk" /\ s.reqs[j].attempt = 2
                            /\ ~s.replies[j].ok}
       IN  /\ (s.path = "multi" /\ exhausted # {})
              => /\ exhausted = {last}
                 /\ s.pc = "failed"
                 /\ s.result = Lit("")
                 /\ \A j \in 1..last :
                        s.reqs[j].kind = "chunk" /\ s.reqs[j].idx <= s.reqs[last].idx
                 /\ Len(s.chunkSummaries) = s.reqs[last].idx
                 /\ evict.pc = "summarizing"
                 /\ evict.chat \notin evict.inserted
                 /\ sm'["evict"] # s
                      => /\ sm'["evict"].reqs = <<>>
                         /\ evict.chat \in evict'.threw
                         /\ evict'.pc # "insert"
                         /\ summaries' = summaries
           /\ evict.threw \cap evict.inserted = {}
           /\ evict'.threw \cap evict'.inserted = {}]_vars

\* the second of two chunks has failed three times in an eviction run
C1_Witness ==
    /\ sm["evict"].path = "multi" /\ sm["evict"].pc = "failed"
    /\ Len(sm["evict"].chunks) = 2 /\ Len(sm["evict"].chunkSummaries) = 1
    /\ Len(sm["evict"].reqs) = 4
    /\ evict.pc = "summarizing"

\* C3: a run that found stale messages leaves its loop only to call
\* cleanupOldMessages, whatever chats failed in the loop, and ends only after that
\* call; when the call succeeds no message older than 48 hours is left
C3_CleanupWhateverTheOutcome ==
    [][LET loop == {"getGroup", "summarizing", "insert", "createSettings"}
       IN  /\ (evict.pc \in loop /\ evict'.pc \notin loop)
              => (evict'.pc = "cleanup" /\ evict'.cleanups = 1)
           /\ evict.pc \in loop \cup {"cleanup"} => evict.found > 0
           /\ (evict.pc = "getMessages" /\ getMessagesToCleanup(48) # <<>>
               /\ evict' # evict /\ evict'.outcome # "threw")
              => evict'.pc \in loop
           /\ (evict'.pc = "done" /\ evict.pc # "done" /\ evict.found > 0)
              => evict.pc = "cleanup"
           /\ (evict.pc = "cleanup" /\ evict'.outcome = "cleaned")
              => \A c \in Chats : \A k \in 1..Len(messages'[c]) :
                    messages'[c][k].timestamp >= now - 48 * 3600]_vars

\* a run in which every chat failed has deleted the stale messages
C3_Witness ==
    /\ evict.pc = "done" /\ evict.outcome = "cleaned"
    /\ evict.failed = Chats /\ evict.inserted = {}
    /\ evict.totalDeleted = 3
    /\ Len(messages[TldrChat]) = 1

\* C4: the eviction run and the scheduled tick call summarizeMessages only for a
\* group that has an API key and is enabled at the moment of the call
C4_JobsSkipDisabledGroups ==
    \A c \in Chats :
        /\ evict.calledFor[c].exists
            => (evict.calledFor[c].key /\ evict.calledFor[c].enabled)
        /\ \A k \in Ticks :
             sched[k].calledFor[c].exists
             => (sched[k].calledFor[c].key /\ sched[k].calledFor[c].enabled)

\* C15: the summaries table never holds two rows with the same chat, period start
\* and period end, and an insertSummary for a key that is in the table leaves the
\* table as it is: the row of the first insert keeps its text and message count
C15_OneSummaryPerPeriod ==
    /\ [](\A j, k \in 1..Len(summaries) :
            (/\ summaries[j].telegram_chat_id = summaries[k].telegram_chat_id
             /\ summaries[j].period_start = summaries[k].period_start
             /\ summaries[j].period_end = summaries[k].period_end) => j = k)
    /\ [][(/\ evict.pc = "insert"
           /\ \E k \in 1..Len(summaries) :
                /\ summaries[k].telegram_chat_id = evict.row.telegram_chat_id
                /\ summaries[k].period_start = evict.row.period_start
                /\ summaries[k].period_end = evict.row.period_end)
          => summaries' = summaries]_vars

\* an insert for a key that is in the table, with another text, was done and the
\* table holds the one row of the first insert
C15_Witness ==
    /\ evict.pc = "createSettings"
    /\ Len(summaries) = 1
    /\ summaries[1].telegram_chat_id = evict.row.telegram_chat_id
    /\ summaries[1].period_start = evict.row.period_start
    /\ summaries[1].period_end = evict.row.period_end
    /\ summaries[1].message_count = evict.row.message_count
    /\ summaries[1].summary_text # evict.row.summary_text

\* C16: a run over stale messages whose summary is stored already (a row with the
\* chat and the period of these messages is in the table, from a run whose
\* deletion did not happen) leaves exactly one row of that key, and it goes on to
\* cleanupOldMessages like any other run: the run does not end before that call,
\* and when the call succeeds no stale message is left
C16_RerunDeletesAgain ==
    /\ [](\A key \in evict.repeated :
            /\ Len(SelectSeq(summaries, LAMBDA r : SummaryKey(r) = key)) = 1
            /\ evict.pc \in {"createSettings", "getGroup", "summarizing", "insert",
                              "cleanup", "done"}
            /\ evict.pc = "done"
                 => /\ evict.cleanups = 1
                    /\ evict.outcome \in {"cleaned", "threw"}
                    /\ evict.outcome = "cleaned" => evict.totalDeleted = evict.found)
    /\ [][(evict.repeated # {} /\ evict.pc = "cleanup" /\ evict'.outcome = "cleaned")
          => /\ messages' = cleanupOldMessages(48)
             /\ \A c \in Chats : \A k \in 1..Len(messages'[c]) :
                  messages'[c][k].timestamp >= now - 48 * Hour]_vars

\* the second run over the stale messages of a chat found their summary stored
\* and deleted them
C16_Witness ==
    /\ evict.pc = "done" /\ evict.outcome = "cleaned"
    /\ evict.repeated # {}
    /\ evict.totalSummarized = 1
    /\ Len(summaries) = 1
    /\ evict.totalDeleted > 0
    /\ \A c \in Chats : StaleRows(c, RetentionHours) = <<>>

\* C21: when an eviction run ends without having thrown, by its delete or because
\* it found nothing stale, no chat holds a message older than 48 hours at that
\* moment, whatever the group row of the chat (no key, disabled) and whatever
\* happened to its summary (summarizeMessages threw, a call of the loop body threw)
C21_NoStaleAfterRun ==
    [][(evict.pc # "done" /\ evict'.pc = "done" /\ evict'.outcome # "threw")
          => \A c \in Chats : \A k \in 1..Len(messages'[c]) :
                ~(messages'[c][k].timestamp < now' - RetentionHours * Hour)]_vars

\* a run ended with its delete: the first chat, which has no API key or is
\* disabled, and the second, whose summarizeMessages call threw, had stale
\* messages, and none is left
C21_Witness ==
    /\ evict.pc = "done" /\ evict.outcome = "cleaned"
    /\ ~groups[TldrChat].key \/ ~groups[TldrChat].enabled
    /\ evict.threw = Chats \ {TldrChat}
    /\ evict.totalDeleted >= 2
    /\ \A c \in Chats : StaleRows(c, RetentionHours) = <<>>

(* Properties of all paths, checked in Spec *)

\* C8: no handler, tick or run calls summarizeMessages with an empty sequence:
\* a /tldr whose read or filter leaves nothing answers so without a call, and the
\* tick and the run skip the chat
C8_NoCallWithoutMessages ==
    /\ \A t \in Tasks \ {"direct"} :
          /\ sm[t].path # "empty"
          /\ sm[t].pc # "idle" => sm[t].totalMessages > 0
    /\ \A h \in Handlers :
          tldr[h].outcome \in {"noMessages", "noneAfterFilter"} => tldr[h].calls = 0
    /\ \A c \in Chats :
          /\ c \in evict.skipped => ~evict.calledFor[c].exists
          /\ \A k \in Ticks : c \in sched[k].skipped => ~sched[k].calledFor[c].exists

\* the /tldr found nothing after the filter, the run skipped the chat whose stale
\* messages are blank, and the tick skipped the chat whose messages are filtered
C8_Witness ==
    /\ tldr["h1"].pc = "done" /\ tldr["h1"].outcome = "noneAfterFilter"
    /\ evict.pc = "done" /\ evict.skipped = {TldrChat}
    /\ sched["sched"].pc = "done" /\ sched["sched"].skipped = {TldrChat}

-----------------------------------------------------------------------------
(* Properties of the eviction run and the scheduled tick at their deletes, reads and
   writes, checked in SpecEvict and SpecSched *)

\* the ids of the rows of chat c that a step removes
Removed(c) ==
    {messages[c][k].message_id : k \in 1..Len(messages[c])}
        \ {messages'[c][k].message_id : k \in 1..Len(messages'[c])}

\* C27: the rows the bulk delete of a run removes from a chat with a key are the
\* rows of the chat that the run fetched as stale at its start
C27_DeletesWhatItFetched ==
    [][(evict.pc = "cleanup" /\ evict'.pc = "done" /\ evict'.outcome = "cleaned")
          => \A c \in Chats :
                (groups[c].exists /\ groups[c].key)
                    => Removed(c) = {id \in MessageIds(c) : <<c, id>> \in evict.fetched}]_vars

\* C28: a tick writes the time of the last scheduled summary of a group only when
\* it has sent a scheduled summary to that chat
C28_RecordsOnlyDeliveredRuns ==
    [][\A k \in Ticks :
          (sched[k].pc = "updateLast" /\ sched'[k].pc # "updateLast"
           /\ settings'[sched[k].chat].last_scheduled_summary
                 # settings[sched[k].chat].last_scheduled_summary)
              => sched[k].chat \in sched[k].sent]_vars

\* the messages of a sequence of chunks
RECURSIVE Joined(_)
Joined(chunks) == IF chunks = <<>> THEN <<>> ELSE Head(chunks) \o Joined(Tail(chunks))

\* the messages of chat c from `since` on that pass the filter of the scheduled
\* summary under the settings st
EligibleSince(c, since, st) ==
    ScheduledFilter(SelectSeq(messages[c], LAMBDA m : m.timestamp >= since), st)

\* C29: the input of a scheduled summary is every message of the chat in the window
\* that passes the filter, the latest of the window among them, however many
\* they are; the tick leaves the summary out only when there is none
C29_SummarizesWholeWindow ==
    [][\A k \in Ticks :
          (sched[k].pc = "read"
           /\ (sched'[k].pc = "summarizing" \/ sched[k].chat \in sched'[k].skipped))
              => LET input == IF sched'[k].pc = "summarizing" THEN Joined(sm'[k].chunks)
                              ELSE <<>>
                 IN  input = EligibleSince(sched[k].chat, sched[k].since, sched[k].st)]_vars

\* C30: the input of the summarizer in an eviction run is every stale message of
\* the chat with a text that is not blank, whatever the filter settings of the
\* chat are and however they are toggled: commands, messages of bots and
\* messages of excluded users are part of it
C30_ArchiveIgnoresSettings ==
    [][(evict.pc = "getGroup" /\ evict'.pc = "summarizing")
          => Joined(sm'["evict"].chunks)
                = FormatMessages(SelectSeq(StaleRows(evict.chat, RetentionHours),
                                           LAMBDA m : NotBlank(m.content)))]_vars

\* under settings that exclude commands, bots and the member, a command of the
\* member and a text of a bot are being summarized
C30_Witness ==
    /\ evict.pc = "summarizing"
    /\ settings[TldrChat].exclude_commands /\ settings[TldrChat].exclude_bot_messages
    /\ settings[TldrChat].excluded_user_ids = {1}
    /\ Len(messages[TldrChat]) = 2
    /\ StartsWithSlash(messages[TldrChat][1].content) /\ messages[TldrChat][1].user_id = 1
    /\ messages[TldrChat][2].username = "bot" /\ messages[TldrChat][2].user_id = 2
    /\ Joined(sm["evict"].chunks) = FormatMessages(messages[TldrChat])

-----------------------------------------------------------------------------
(* Properties of the parser, checked in SpecParse *)

\* a bare string of decimal digits
BareDigits(input) == input # <<>> /\ \A i \in 1..Len(input) : input[i] \in Digits

\* C23: an input that is a bare string of decimal digits is taken for a count, and
\* the count is the number written when that lies in 1..10000, 10000 when it is
\* larger and 100 when it is zero
C23_DigitsGiveClampedCount ==
    (parsed.pc = "selected" /\ BareDigits(parsed.input))
        => /\ parsed.kind = "count"
           /\ parsed.count \in 1..10000
           /\ LET n == decimal(parsed.input)
              IN  parsed.count = IF n = 0 THEN 100 ELSE IF n > 10000 THEN 10000 ELSE n

C23_Witness ==
    /\ parsed.pc = "selected"
    /\ parsed.input = <<"1", "0", "0", "0", "1">>
    /\ parsed.kind = "count"
    /\ parsed.count = 10000

\* the forms of the time grammar: a number and a unit, compact or spaced, and the
\* two bare keywords; a compact form with the number zero is not one of them
CompactUnits == {<<"h">>, <<"d">>}
SpacedHours == {<<" ", "h", "o", "u", "r">>, <<" ", "h", "o", "u", "r", "s">>}
SpacedDays == {<<" ", "d", "a", "y">>, <<" ", "d", "a", "y", "s">>}
SpacedWeeks == {<<" ", "w", "e", "e", "k">>, <<" ", "w", "e", "e", "k", "s">>}
Keywords == {<<"d", "a", "y">>, <<"w", "e", "e", "k">>}

\* the number and the unit of an input
NumberOf(input) == decimal(SubSeq(input, 1, digitsLen(input)))
UnitOf(input) == SubSeq(input, digitsLen(input) + 1, Len(input))

InTimeGrammar(input) ==
    \/ input \in Keywords
    \/ /\ digitsLen(input) > 0
       /\ \/ UnitOf(input) \in CompactUnits /\ NumberOf(input) > 0
          \/ UnitOf(input) \in SpacedHours \cup SpacedDays \cup SpacedWeeks

\* the duration of an input of the grammar, in hours: hours capped at 168, days at
\* 7, weeks at 1
Capped(input) ==
    IF input = <<"d", "a", "y">> THEN 24
    ELSE IF input = <<"w", "e", "e", "k">> THEN 168
    ELSE IF UnitOf(input) \in {<<"h">>} \cup SpacedHours
         THEN IF NumberOf(input) > 168 THEN 168 ELSE NumberOf(input)
    ELSE IF UnitOf(input) \in {<<"d">>} \cup SpacedDays
         THEN 24 * (IF NumberOf(input) > 7 THEN 7 ELSE NumberOf(input))
    ELSE 168 * (IF NumberOf(input) > 1 THEN 1 ELSE NumberOf(input))

\* C24: an input of the time grammar is taken for a time selection, its duration is
\* the capped one, at most 168 hours, and the cutoff is the clock at the call less
\* that duration
C24_GrammarGivesCappedCutoff ==
    (parsed.pc = "selected" /\ InTimeGrammar(parsed.input))
        => /\ parsed.kind = "time"
           /\ Capped(parsed.input) <= 168
           /\ parsed.since = parsed.at - Capped(parsed.input) * Hour

C24_Witness ==
    /\ parsed.pc = "selected"
    /\ parsed.input = <<"8", " ", "d", "a", "y", "s">>
    /\ parsed.at > StartTime
    /\ parsed.since = parsed.at - 168 * Hour

\* an input is out of the grammar when it is no bare integer and, with capitals
\* lowered, the ends trimmed and runs of white space taken for one space, none of
\* the forms of the time grammar, the spaced `<n> h` that the code accepts among them
OutOfGrammar(input) ==
    LET plain == collapseWhiteSpace(trim(toLowerCase(input)))
    IN  /\ ~BareDigits(plain)
        /\ ~InTimeGrammar(plain)
        /\ ~(digitsLen(plain) > 0 /\ UnitOf(plain) = <<" ", "h">>)

\* C25: an input that is no bare integer and matches no form of the time grammar
\* (garbage, a zero or a non-number before a suffix h or d, a number followed by an
\* unknown word) resolves to a time selection of exactly 1 hour
C25_OutOfGrammarGivesOneHour ==
    (parsed.pc = "selected" /\ OutOfGrammar(parsed.input))
        => /\ parsed.kind = "time"
           /\ parsed.since = parsed.at - 1 * Hour

-----------------------------------------------------------------------------
(* Properties of filterMessages, checked in SpecFilter *)

\* out is made of entries of msgs in the order they have there, each taken once
IsSubsequence(out, msgs) ==
    \E at \in [1..Len(out) -> 1..Len(msgs)] :
        /\ \A i \in 1..Len(out) : out[i] = msgs[at[i]]
        /\ \A i, j \in 1..Len(out) : i < j => at[i] < at[j]

\* what the handler h passes on in a step that applies the filter: the input of
\* the summarizeMessages call it makes, nothing when it answers that no message is
\* left
Passed(h) ==
    IF tldr'[h].pc = "summarizing" THEN sm'[h].chunks[1] ELSE <<>>

\* C26: what filterMessages returns is a subsequence of its input in the order of
\* the input, and filtering it again under the same settings returns it unchanged
C26_FilterKeepsOrderAndIsIdempotent ==
    [][\A h \in Handlers :
          (tldr[h].pc = "settings" /\ tldr'[h].pc # "settings" /\ tldr'[h].outcome # "error")
              => /\ Passed(h) = filterMessages(tldr[h].msgs, getGroupSettings(tldr[h].chat))
                 /\ IsSubsequence(Passed(h), tldr[h].msgs)
                 /\ filterMessages(Passed(h), getGroupSettings(tldr[h].chat)) = Passed(h)]_vars

\* of a text, a command and a text of a bot without a user id, the two texts were
\* passed on, in this order
C26_Witness ==
    /\ tldr["h1"].pc = "summarizing"
    /\ settings[TldrChat].exclude_commands /\ settings[TldrChat].exclude_bot_messages
    /\ Len(messages[TldrChat]) = 3
    /\ StartsWithSlash(messages[TldrChat][2].content)
    /\ messages[TldrChat][3].user_id = 0
    /\ sm["h1"].chunks = <<<<messages[TldrChat][1], messages[TldrChat][3]>>>>


-----------------------------------------------------------------------------
(* Properties of the loops over the chats, checked in SpecLoops *)

\* the eviction run goes on from the chat it is at: to the next chat of its list
\* with the rows of that chat still to be worked on, or past the end of the list to
\* the bulk deletion
EvictGoesOn ==
    IF Len(evict.queue) = 0
    THEN evict'.pc = "cleanup"
    ELSE /\ evict'.pc = "getGroup"
         /\ evict'.chat = Head(evict.queue)
         /\ evict'.queue = Tail(evict.queue)
         /\ evict'.byChat[evict'.chat] = evict.byChat[evict'.chat]

\* the tick k goes on from the chat it is at: to the next group of its list, or
\* past the end of the list to its regular end
SchedGoesOn(k) ==
    IF Len(sched[k].queue) = 0
    THEN sched'[k].pc = "done" /\ sched'[k].outcome = "ran"
    ELSE /\ sched'[k].pc = "getGroup"
         /\ sched'[k].chat = Head(sched[k].queue).telegram_chat_id
         /\ sched'[k].queue = Tail(sched[k].queue)

\* a step of the tick k in which the summarizer threw or the delivery failed
SchedFails(k) ==
    \/ sched[k].pc = "summarizing" /\ sched'[k].pc \notin {"summarizing", "send"}
    \/ sched[k].pc = "send" /\ sched'[k].pc # "send" /\ sched'[k].sent = sched[k].sent

\* a row of summaries for the chat c
Persisted(c) == \E i \in 1..Len(summaries) : summaries[i].telegram_chat_id = c

\* C31: within one eviction run or one scheduled tick a failure while one chat is
\* processed does not stop the loop: the run goes on to the next chat (a run that
\* reaches its end has dealt with every chat of the rows it fetched), the tick
\* goes on to the end of the loop body and from there to the next group, and the
\* rows of summaries stay as they are
C31_AFailureDoesNotStopTheLoop ==
    /\ [][(evict.failed \subseteq evict'.failed /\ evict'.failed # evict.failed)
            => (EvictGoesOn /\ summaries' = summaries)]_vars
    /\ [][\A k \in Ticks :
            /\ SchedFails(k) =>
                    /\ sched'[k].pc = "updateLast"
                    /\ sched'[k].chat = sched[k].chat
                    /\ sched'[k].queue = sched[k].queue
                    /\ summaries' = summaries
            /\ (sched[k].pc = "updateLast" /\ sched'[k] # sched[k]) => SchedGoesOn(k)]_vars
    /\ [](evict.pc = "done" /\ evict.outcome = "cleaned"
            => /\ \A key \in evict.fetched :
                    key[1] \in evict.skipped \cup evict.failed \cup evict.inserted
               /\ \A c \in evict.inserted : Persisted(c))

\* a run failed on the second chat after it archived the first, and a tick whose summarizer was called for the
\* first chat sent nothing to it and sent the summary of the second
C31_Witness ==
    /\ evict.pc = "done" /\ evict.outcome = "cleaned"
    /\ evict.failed = {2} /\ evict.inserted = {1}
    /\ Persisted(1) /\ ~Persisted(2)
    /\ sched["sched"].pc = "done" /\ sched["sched"].outcome = "ran"
    /\ sched["sched"].calledFor[1] # NoRow
    /\ sched["sched"].sent = {2}


-----------------------------------------------------------------------------
(* Properties of the number of requests, checked in SpecSumLive *)

\* Math.ceil(n / d) of naturals
CeilDiv(n, d) == (n + d - 1) \div d

\* the requests of the invocation of the direct caller, and the merge requests
\* among them
RequestsIssued == Len(sm["direct"].reqs)
MergesIssued == Len(SelectSeq(sm["direct"].reqs, LAMBDA r : r.kind = "merge"))

\* C32: an invocation of summarizeMessages ends with a text or with a failure when
\* every request is answered; for n messages it issues at most 3 requests when
\* n <= 1000 and at most 3 * ceil(n / 900) + 1 when n > 1000, the merge request at
\* most once
C32_TerminatesWithinTheRequestBound ==
    /\ [](direct.pc # "idle" =>
            /\ RequestsIssued <= IF direct.n <= CHUNK_THRESHOLD
                                 THEN maxRetries
                                 ELSE maxRetries * CeilDiv(direct.n, CHUNK_SIZE) + 1
            /\ MergesIssued <= 1)
    /\ (direct.pc = "waiting" ~> direct.pc \in {"returned", "threw"})

\* each of the two chunks of 1001 messages took three attempts, and the merge
\* request failed: the call returned after seven requests
C32_Witness ==
    /\ direct.pc = "returned"
    /\ direct.n = CHUNK_THRESHOLD + 1
    /\ RequestsIssued = 2 * maxRetries + 1
    /\ MergesIssued = 1
    /\ ~sm["direct"].replies[RequestsIssued].ok


-----------------------------------------------------------------------------
(* Properties of the returned text, checked in SpecSum *)

\* the text is the empty string: a literal or a model text of no character (the
\* merge texts start with the words `Summary of`)
IsEmptyText(t) == t.kind \in {"lit", "model"} /\ t.lit = ""

\* the reply to request j of the direct caller was a response without a text
EmptyResponse(j) == sm["direct"].replies[j].ok /\ sm["direct"].replies[j].text = ""

\* C33: when summarizeMessages is given a non-empty sequence and returns, the text
\* is non-empty: a response without a text is replaced by the sentinel `Generated
\* summary (no text returned)` on the single-chunk path and in the summary of each
\* chunk of the multi-chunk path, and by the sentinel `Summary of <n> messages
\* (processed in <k> chunks)` for the merge request
C33_ReturnedTextIsNonEmpty ==
    (direct.pc = "returned" /\ direct.n > 0) =>
        LET s == sm["direct"]
        IN  /\ ~IsEmptyText(direct.text)
            /\ \A j \in 1..Len(s.replies) :
                  EmptyResponse(j) =>
                    IF s.reqs[j].kind = "merge"
                    THEN /\ direct.text.kind = "emptyMerge"
                         /\ direct.text.total = direct.n
                         /\ direct.text.parts = <<Len(s.chunks)>>
                    ELSE IF s.path = "single"
                    THEN direct.text = NoTextReturned
                    ELSE s.chunkSummaries[s.reqs[j].idx + 1].text = NoTextReturned
            /\ \A i \in 1..Len(s.chunkSummaries) : ~IsEmptyText(s.chunkSummaries[i].text)

\* of 1001 messages the first chunk and the merge request were answered without a
\* text, the second chunk with one
C33_Witness ==
    /\ direct.pc = "returned"
    /\ direct.n = CHUNK_THRESHOLD + 1
    /\ Len(sm["direct"].replies) = 3
    /\ EmptyResponse(1) /\ ~EmptyResponse(2) /\ EmptyResponse(3)
    /\ sm["direct"].chunkSummaries[1].text = NoTextReturned
    /\ direct.text.kind = "emptyMerge"


-----------------------------------------------------------------------------
(* Properties of the cache beside the removal of groups, checked in SpecRemoval *)

\* C34: in every reachable state every cached message is of a chat that has a row
\* of groups: once the row is deleted (by /remove_group, by the event of the bot
\* leaving or by the orphan check) no message of the chat is left, and a cache
\* handler that read the row before the deletion leaves no message behind
C34_MessagesBelongToAGroup ==
    \A c \in Chats : Len(messages[c]) > 0 => groups[c].exists

\* the handler read the row of the group, the group was deleted, and the insert
\* was refused: the chat has no row and no message
C34_Witness ==
    /\ caching.pc = "done" /\ caching.outcome = "refused"
    /\ ~groups[caching.chat].exists
    /\ messages[caching.chat] = <<>>


-----------------------------------------------------------------------------
(* Properties of the daily schedule, checked in SpecDaily *)

-----------------------------------------------------------------------------
(* Properties of the rows of summaries over several runs, checked in SpecEvict *)

\* C36: no cached message is among the messages of two different rows of
\* summaries, over any sequence of eviction runs, the runs whose bulk deletion
\* failed among them
C36_AtMostOneSummaryPerMessage ==
    \A i, j \in 1..Len(summaries) :
        i # j => summaries[i].message_ids \cap summaries[j].message_ids = {}


-----------------------------------------------------------------------------
(* Properties of the two filters, checked in SpecTwoFilters *)

\* what the tick k passes on in a step that applies its filter: the input of the
\* summarizeMessages call it makes, nothing when it returns for an empty selection
ScheduledPassed(k) ==
    IF sched'[k].pc = "summarizing" THEN sm'[k].chunks[1] ELSE <<>>

-----------------------------------------------------------------------------
(* Properties of the limiter state, checked in SpecPairs *)

-----------------------------------------------------------------------------
(* Properties of stop(), checked in SpecStop *)

\* a callback of a periodic concern starts: the eviction, the pruning of the
\* summaries, a check of the scheduled summaries, the orphan check
ConcernStarts ==
    \/ evict'.pc = "getMessages" /\ evict.pc # "getMessages"
    \/ host'.prune = "query" /\ host.prune # "query"
    \/ \E k \in Ticks : sched'[k].pc = "getList" /\ sched[k].pc # "getList"
    \/ orphan'.pc = "query" /\ orphan.pc # "query"

\* what stop() does clear: once the intervals are cleared, neither the pruning
\* nor the hourly check of the scheduled summaries starts again, and the
\* orphan check starts from the timeout of its initial check only
ClearedIntervalsStayQuiet ==
    [][host.cleared =>
         /\ ~(host'.prune = "query" /\ host.prune # "query")
         /\ ~(sched'["sched"].pc = "getList" /\ sched["sched"].pc # "getList")
         /\ (orphan'.pc = "query" /\ orphan.pc # "query")
                => host.orphanInitial # 0 /\ host'.orphanInitial = 0]_vars

\* C39: once stop() has returned, no callback of a periodic concern starts
\* again, neither from an interval nor from the timeouts of the initial checks
\* that start() armed for 5 and 10 minutes after the start
C39_NoConcernStartsAfterStop ==
    [][host.stop = "returned" => ~ConcernStarts]_vars

=============================================================================
